---- MODULE Spec2Model ----
(***************************************************************************)
(* A model of the rule acquisition and decision layer of P-Advisor:        *)
(* PayseraIntranetService (services/payseraIntranetService.ts).            *)
(*                                                                         *)
(* Strings that are only compared for equality (country names, currency    *)
(* codes, URLs) are TLA+ strings.  Strings that the code searches          *)
(* (activity texts, table status cells) are sequences of one-character     *)
(* strings, so that toLowerCase and String.includes are computed.          *)
(* A message of a restrictions/conditions list is a pair <<kind, arg>>:    *)
(* the fixed text of the template literal and the value interpolated.      *)
(***************************************************************************)
EXTENDS Integers, Sequences, FiniteSets, TLC

\* ------------------------------------------------------------------------
\* Bounds of the model
\* ------------------------------------------------------------------------
\* calls that may be pending at the same time
MaxCalls == 2
\* times the clock advances in one behaviour
MaxTicks == 2
\* restricted-country items of a drawn transfer page
MaxRestricted == 2
\* items of each activity list of a drawn annex page
MaxActivities == 2

\* ------------------------------------------------------------------------
\* JavaScript values and built-ins
\* ------------------------------------------------------------------------
undefined == "undefined"

\* a string used as a condition: '' and undefined are falsy
Truthy(s) == s # undefined /\ s # ""

UpperChars ==
  <<"A", "B", "C", "D", "E", "F", "G", "H", "I", "J", "K", "L", "M",
    "N", "O", "P", "Q", "R", "S", "T", "U", "V", "W", "X", "Y", "Z">>

LowerChars ==
  <<"a", "b", "c", "d", "e", "f", "g", "h", "i", "j", "k", "l", "m",
    "n", "o", "p", "q", "r", "s", "t", "u", "v", "w", "x", "y", "z">>

\* upper-case letter -> lower-case letter
LowerOf == [u \in {UpperChars[i] : i \in 1..26} |->
              LowerChars[CHOOSE i \in 1..26 : UpperChars[i] = u]]

toLowerCaseChar(c) == IF c \in DOMAIN LowerOf THEN LowerOf[c] ELSE c

\* String.prototype.toLowerCase on a sequence of characters
toLowerCase(s) == [i \in 1..Len(s) |-> toLowerCaseChar(s[i])]

\* String.prototype.includes: t occurs in s as a contiguous run
includes(s, t) ==
  \E i \in 0..(Len(s) - Len(t)) : SubSeq(s, i + 1, i + Len(t)) = t

\* a membership test that looks at the first element only
arrayIncludesFirstOnly(arr, x) == Len(arr) > 0 /\ arr[1] = x

\* a membership test that looks at the last element only
arrayIncludesLastOnly(arr, x) == Len(arr) > 0 /\ arr[Len(arr)] = x

\* Array.prototype.includes
arrayIncludes(arr, x) == \E i \in 1..Len(arr) : arr[i] = x

\* a lookup that finds no key
LookupNothing(obj, key) == undefined

\* obj[key] of a plain object used as a map: undefined when the key is absent
Lookup(obj, key) == IF key \in DOMAIN obj THEN obj[key] ELSE undefined

\* ------------------------------------------------------------------------
\* Program constants
\* ------------------------------------------------------------------------
cacheExpiry == 3600000

\* enum ToolType
TRANSFER_CHECK == "Transfer Check"
IBAN_SWIFT_VALIDATOR == "IBAN & SWIFT Validator"
COMPANY_VALIDATION == "Company Validation"

PAGE_ID == "58238300"
TransferCacheKey == "transfer_rules_58238300"
CompanyCacheKey == "company_restrictions_fntt"
TransferPageUrl == "https://intranet.paysera.net/display/PSWEB/58238300"
CountryPageUrl ==
  "https://intranet.paysera.net/display/FNTT/Opportunities+to+open+a+company+account+by+country"
ActivitiesPageUrl ==
  "https://intranet.paysera.net/display/FNTT/ANNEX+2.+TYPES+OF+BUSINESS+ACTIVITIES"

euCountries ==
  <<"Austria", "Belgium", "Bulgaria", "Croatia", "Cyprus", "Czech Republic",
    "Denmark", "Estonia", "Finland", "France", "Germany", "Greece", "Hungary",
    "Ireland", "Italy", "Latvia", "Lithuania", "Luxembourg", "Malta",
    "Netherlands", "Poland", "Portugal", "Romania", "Slovakia", "Slovenia",
    "Spain", "Sweden", "Iceland", "Liechtenstein", "Norway">>

isEUCountry(country) == arrayIncludes(euCountries, country)

\* a Currency One list without USD
currencyOneWithoutUSD ==
  <<"GBP", "CHF", "PLN", "CZK", "RON", "BGN", "NOK", "SEK", "DKK", "HUF">>

currencyOneCurrencies ==
  <<"USD", "GBP", "CHF", "PLN", "CZK", "RON", "BGN", "NOK", "SEK", "DKK", "HUF">>

\* rules.systems: settlement-system metadata, key -> name and fee
ParsedSystems ==
  [k \in {"SEPA", "Currency One", "SWIFT", "LOCAL"} |->
     CASE k = "SEPA" -> [name |-> "SEPA", fee |-> "0 EUR"]
       [] k = "Currency One" -> [name |-> "Currency One", fee |-> "1 EUR"]
       [] k = "SWIFT" ->
            [name |-> "SWIFT", fee |-> "15-50 EUR depending on currency and amount"]
       [] OTHER -> [name |-> "Local Transfer", fee |-> "0 EUR"]]

FallbackSystems ==
  [k \in {"SEPA", "SWIFT", "LOCAL"} |->
     CASE k = "SEPA" -> [name |-> "SEPA", fee |-> "0 EUR"]
       [] k = "SWIFT" -> [name |-> "SWIFT", fee |-> "1-5 EUR depending on currency"]
       [] OTHER -> [name |-> "Local Transfers", fee |-> "0 EUR"]]

FallbackRestrictedCountries ==
  <<"Afghanistan", "Belarus", "Central African Republic", "Congo", "Cuba",
    "Iran", "Iraq", "Libya", "Myanmar", "North Korea", "Russia",
    "Somalia", "South Sudan", "Sudan", "Syria", "Venezuela", "Yemen", "Zimbabwe">>

FallbackEnhancedCountries ==
  <<"Albania", "Barbados", "Burkina Faso", "Cambodia", "Cayman Islands",
    "Haiti", "Jamaica", "Jordan", "Mali", "Morocco", "Nicaragua",
    "Pakistan", "Panama", "Philippines", "Senegal", "South Africa",
    "Turkey", "Uganda", "United Arab Emirates", "Vanuatu">>

\* The fallback object has no pageSource property: reading it gives undefined.
getFallbackTransferRules ==
  [ systems |-> FallbackSystems,
    restrictedCountries |-> FallbackRestrictedCountries,
    enhancedMonitoring |-> FallbackEnhancedCountries,
    currencyRestrictions |-> ("RUB" :> "Prohibited") @@ ("BYN" :> "Prohibited"),
    pageSource |-> undefined ]

\* ------------------------------------------------------------------------
\* Page content and extraction of transfer rules
\*
\* The inner HTML of an <li> (or <td>) is a sequence of tokens: a tag, a
\* blank " ", or a run of text.  A body is the text of body.storage.value or
\* body.view.value, abstracted to the items of the section that each heading
\* pattern of the extractor selects (no such section: no items).  present
\* is FALSE for a value that is missing or the empty string.
\* ------------------------------------------------------------------------
Tags == {"<b>", "</b>", "<br/>", "<p>", "</p>", "<span>", "</span>"}

\* .replace(/<[^>]*>/g, '')
stripTags(item) == SelectSeq(item, LAMBDA tok : tok \notin Tags)

RECURSIVE trimStart(_)
trimStart(item) ==
  IF item # <<>> /\ Head(item) = " " THEN trimStart(Tail(item)) ELSE item

RECURSIVE trimEnd(_)
trimEnd(item) ==
  IF item # <<>> /\ item[Len(item)] = " "
    THEN trimEnd(SubSeq(item, 1, Len(item) - 1))
    ELSE item

\* .trim()
trim(item) == trimEnd(trimStart(item))

RECURSIVE joinTokens(_)
joinTokens(item) == IF item = <<>> THEN "" ELSE Head(item) \o joinTokens(Tail(item))

\* match[1].replace(/<[^>]*>/g, '').trim() as a string
cellText(item) == joinTokens(trim(stripTags(item)))

\* for (const match of countryMatches) { ...; if (country) list.push(country) }
RECURSIVE extractListItems(_)
extractListItems(items) ==
  IF items = <<>> THEN <<>>
  ELSE LET country == cellText(Head(items))
       IN (IF Truthy(country) THEN <<country>> ELSE <<>>)
            \o extractListItems(Tail(items))

\* for (const match of currencyMatches) { ...; if (currency && status) map[currency] = status }
\* an item is [cur |-> tokens before the first ':' or '-', status |-> tokens after it]
RECURSIVE extractCurrencyRestrictions(_, _)
extractCurrencyRestrictions(items, acc) ==
  IF items = <<>> THEN acc
  ELSE LET currency == cellText(Head(items).cur)
           status == cellText(Head(items).status)
       IN extractCurrencyRestrictions(
            Tail(items),
            IF Truthy(currency) /\ Truthy(status)
              THEN (currency :> status) @@ acc
              ELSE acc)

\* One shape serves the three documents: restricted, enhanced and currency are
\* sections of the transfer page, rows the <tr> rows of the country table,
\* prohibited and restrictedActs the sections of the activities annex.
NoBody ==
  [ present |-> FALSE, restricted |-> <<>>, enhanced |-> <<>>, currency |-> <<>>,
    rows |-> <<>>, prohibited |-> <<>>, restrictedActs |-> <<>> ]

\* pageData.body?.storage?.value || pageData.body?.view?.value || ''
bodyOf(pageData) ==
  IF pageData.storage.present THEN pageData.storage
  ELSE IF pageData.view.present THEN pageData.view
  ELSE NoBody

\* The result of a call that may throw: threw, or the value returned.
Returned(v) == [threw |-> FALSE, value |-> v]
Thrown(v) == [threw |-> TRUE, value |-> v]

\* an extraction that returns what it parsed, also without restricted countries
parseTransferRulesPartial(pageData) ==
  IF ~pageData.wellFormed THEN Thrown(getFallbackTransferRules)
  ELSE
    LET body == bodyOf(pageData)
    IN Returned(
         [ systems |-> ParsedSystems,
           restrictedCountries |-> extractListItems(body.restricted),
           enhancedMonitoring |-> extractListItems(body.enhanced),
           currencyRestrictions |->
             extractCurrencyRestrictions(body.currency, <<>>),
           pageSource |-> TransferPageUrl ])

\* A page that is not wellFormed (JSON null, a body value that is no string)
\* makes the property access or body.match throw a TypeError.
parseTransferRules(pageData) ==
  IF ~pageData.wellFormed THEN Thrown(getFallbackTransferRules)
  ELSE
    LET body == bodyOf(pageData)
        restrictedCountries == extractListItems(body.restricted)
    IN IF Len(restrictedCountries) = 0
         THEN Returned(getFallbackTransferRules)
         ELSE Returned(
                [ systems |-> ParsedSystems,
                  restrictedCountries |-> restrictedCountries,
                  enhancedMonitoring |-> extractListItems(body.enhanced),
                  currencyRestrictions |->
                    extractCurrencyRestrictions(body.currency, <<>>),
                  pageSource |-> TransferPageUrl ])

\* ------------------------------------------------------------------------
\* checkTransfer: the decision, given the rule set getTransferRules returned
\* ------------------------------------------------------------------------
Msg(kind, arg) == <<kind, arg>>

\* rules.pageSource || 'https://intranet.paysera.net/display/PSWEB/58238300'
pageSourceOrDefault(rules) ==
  IF Truthy(rules.pageSource) THEN rules.pageSource ELSE TransferPageUrl

\* an early return that names a system and a fee
TransferRejectedWithSystem(rules, restrictions) ==
  [ isPossible |-> FALSE,
    system |-> "N/A",
    fee |-> "N/A",
    restrictions |-> restrictions,
    requiresEnhancedMonitoring |-> FALSE,
    intranetPageSource |-> rules.pageSource,
    pageId |-> PAGE_ID ]

\* the three early returns: no system and no fee property
TransferRejected(rules, restrictions) ==
  [ isPossible |-> FALSE,
    system |-> undefined,
    fee |-> undefined,
    restrictions |-> restrictions,
    requiresEnhancedMonitoring |-> FALSE,
    intranetPageSource |-> rules.pageSource,
    pageId |-> PAGE_ID ]

\* a chain that tests SEPA before the local transfer
SelectSystemSepaFirst(params) ==
  IF params.currency = "EUR" /\ isEUCountry(params.recipientCountry)
    THEN [ system |-> "SEPA", fee |-> "0 EUR",
           restrictions |-> << Msg("via SEPA", "") >> ]
  ELSE IF params.recipientCountry = "Lithuania" /\ params.currency = "EUR"
    THEN [ system |-> "Local Transfer (Lithuania)", fee |-> "0 EUR",
           restrictions |-> << Msg("via LOCAL transfer system", "") >> ]
  ELSE IF arrayIncludes(currencyOneCurrencies, params.currency)
    THEN [ system |-> "Currency One", fee |-> "1 EUR",
           restrictions |-> << Msg("via CURRENCY ONE system", "") >> ]
  ELSE [ system |-> "SWIFT", fee |-> "15-50 EUR (depending on currency and amount)",
         restrictions |-> << Msg("via SWIFT", "") >> ]

\* the if / else-if chain that sets system, fee and the first restrictions
SelectSystem(params) ==
  IF params.recipientCountry = "Lithuania" /\ params.currency = "EUR"
    THEN [ system |-> "Local Transfer (Lithuania)", fee |-> "0 EUR",
           restrictions |-> << Msg("via LOCAL transfer system", ""),
                               Msg("Processing time: Same business day", ""),
                               Msg("Fee: 0 EUR (free for local Lithuanian transfers)", "") >> ]
  ELSE IF params.currency = "EUR" /\ isEUCountry(params.recipientCountry)
    THEN [ system |-> "SEPA", fee |-> "0 EUR",
           restrictions |-> << Msg("via SEPA", ""),
                               Msg("Processing time: 1-2 business days", ""),
                               Msg("Fee: 0 EUR (free for SEPA transfers)", ""),
                               Msg("SEPA only within EU/EEA countries in EUR", "") >> ]
  ELSE IF arrayIncludes(currencyOneCurrencies, params.currency)
    THEN [ system |-> "Currency One", fee |-> "1 EUR",
           restrictions |-> << Msg("via CURRENCY ONE system", ""),
                               Msg("Supported currency", params.currency),
                               Msg("Processing time: 1-3 business days", ""),
                               Msg("Fee: 1 EUR per transfer", ""),
                               Msg("Currency One supports", "") >> ]
  ELSE [ system |-> "SWIFT", fee |-> "15-50 EUR (depending on currency and amount)",
         restrictions |-> << Msg("via SWIFT", ""),
                             Msg("Processing time: 3-5 business days", ""),
                             Msg("Fee: 15-50 EUR depending on currency and transfer amount", ""),
                             Msg("Intermediary bank fees may apply", ""),
                             Msg("SWIFT is used for currencies not supported by Currency One or SEPA", "") >> ]

\* a decision that tests the recipient before the sender
checkTransferRecipientFirst(params, rules) ==
  IF arrayIncludes(rules.restrictedCountries, params.recipientCountry)
    THEN TransferRejected(rules,
           << Msg("Transfers TO are PROHIBITED", params.recipientCountry),
              Msg("Source: Restricted Countries section", PAGE_ID),
              Msg("View full details at", pageSourceOrDefault(rules)) >>)
  ELSE IF arrayIncludes(rules.restrictedCountries, params.senderNationality)
    THEN TransferRejected(rules,
           << Msg("Transfers FROM are PROHIBITED", params.senderNationality),
              Msg("Source: Restricted Countries section", PAGE_ID),
              Msg("View full details at", pageSourceOrDefault(rules)) >>)
  ELSE IF Lookup(rules.currencyRestrictions, params.currency) = "Prohibited"
    THEN TransferRejected(rules,
           << Msg("transfers are currently PROHIBITED", params.currency) >>)
  ELSE [ isPossible |-> TRUE,
         system |-> SelectSystem(params).system,
         fee |-> SelectSystem(params).fee,
         restrictions |-> SelectSystem(params).restrictions,
         requiresEnhancedMonitoring |-> FALSE,
         intranetPageSource |-> rules.pageSource,
         pageId |-> PAGE_ID ]

\* a decision that looks up only the sender in the enhanced-monitoring list
checkTransferSenderMonitoringOnly(params, rules) ==
  IF \/ arrayIncludes(rules.restrictedCountries, params.senderNationality)
     \/ arrayIncludes(rules.restrictedCountries, params.recipientCountry)
     \/ Lookup(rules.currencyRestrictions, params.currency) = "Prohibited"
    THEN TransferRejected(rules, << Msg("PROHIBITED", "") >>)
    ELSE [ isPossible |-> TRUE,
           system |-> SelectSystem(params).system,
           fee |-> SelectSystem(params).fee,
           restrictions |-> SelectSystem(params).restrictions,
           requiresEnhancedMonitoring |->
             arrayIncludes(rules.enhancedMonitoring, params.senderNationality),
           intranetPageSource |-> rules.pageSource,
           pageId |-> PAGE_ID ]

checkTransferWith(params, rules) ==
  IF arrayIncludes(rules.restrictedCountries, params.senderNationality)
    THEN TransferRejected(rules,
           << Msg("Transfers FROM are PROHIBITED", params.senderNationality),
              Msg("Source: Restricted Countries section", PAGE_ID),
              Msg("View full details at", pageSourceOrDefault(rules)) >>)
  ELSE IF arrayIncludes(rules.restrictedCountries, params.recipientCountry)
    THEN TransferRejected(rules,
           << Msg("Transfers TO are PROHIBITED", params.recipientCountry),
              Msg("Source: Restricted Countries section", PAGE_ID),
              Msg("View full details at", pageSourceOrDefault(rules)) >>)
  ELSE IF Lookup(rules.currencyRestrictions, params.currency) = "Prohibited"
    THEN TransferRejected(rules,
           << Msg("transfers are currently PROHIBITED", params.currency),
              Msg("Source: Currency Restrictions section", PAGE_ID),
              Msg("View full details at", pageSourceOrDefault(rules)) >>)
  ELSE
    LET senderRequiresMonitoring ==
          arrayIncludes(rules.enhancedMonitoring, params.senderNationality)
        recipientRequiresMonitoring ==
          arrayIncludes(rules.enhancedMonitoring, params.recipientCountry)
        requiresEnhancedMonitoring ==
          senderRequiresMonitoring \/ recipientRequiresMonitoring
        sel == SelectSystem(params)
    IN [ isPossible |-> TRUE,
         system |-> sel.system,
         fee |-> sel.fee,
         restrictions |->
           sel.restrictions
           \o (IF senderRequiresMonitoring
                 THEN << Msg("Sender country requires ENHANCED DUE DILIGENCE",
                             params.senderNationality),
                         Msg("Source: Enhanced Monitoring Countries section", PAGE_ID) >>
                 ELSE <<>>)
           \o (IF recipientRequiresMonitoring
                 THEN << Msg("Recipient country requires ENHANCED DUE DILIGENCE",
                             params.recipientCountry),
                         Msg("Source: Enhanced Monitoring Countries section", PAGE_ID) >>
                 ELSE <<>>)
           \o (IF requiresEnhancedMonitoring
                 THEN << Msg("Additional documentation will be requested", ""),
                         Msg("Transfer will undergo enhanced screening procedures", "") >>
                 ELSE <<>>)
           \o << Msg("Full transfer rules documented in Intranet Page ID", PAGE_ID),
                 Msg("View complete policy at", pageSourceOrDefault(rules)) >>,
         requiresEnhancedMonitoring |-> requiresEnhancedMonitoring,
         intranetPageSource |-> rules.pageSource,
         pageId |-> PAGE_ID ]

\* ------------------------------------------------------------------------
\* Company restrictions: fallback data and extraction
\* ------------------------------------------------------------------------
FallbackProhibitedActivities ==
  << <<"G", "a", "m", "b", "l", "i", "n", "g", " ", "a", "n", "d", " ", "b", "e", "t", "t", "i", "n", "g">>,
     <<"C", "r", "y", "p", "t", "o", "c", "u", "r", "r", "e", "n", "c", "y", " ", "e", "x", "c", "h", "a", "n", "g", "e", "s", " ", "a", "n", "d", " ", "t", "r", "a", "d", "i", "n", "g">>,
     <<"A", "d", "u", "l", "t", " ", "e", "n", "t", "e", "r", "t", "a", "i", "n", "m", "e", "n", "t">>,
     <<"W", "e", "a", "p", "o", "n", "s", " ", "a", "n", "d", " ", "a", "m", "m", "u", "n", "i", "t", "i", "o", "n">>,
     <<"T", "o", "b", "a", "c", "c", "o", " ", "p", "r", "o", "d", "u", "c", "t", "s">>,
     <<"P", "h", "a", "r", "m", "a", "c", "e", "u", "t", "i", "c", "a", "l", "s", " ", "w", "i", "t", "h", "o", "u", "t", " ", "p", "r", "o", "p", "e", "r", " ", "l", "i", "c", "e", "n", "s", "i", "n", "g">>,
     <<"I", "l", "l", "e", "g", "a", "l", " ", "s", "u", "b", "s", "t", "a", "n", "c", "e", "s">>,
     <<"M", "o", "n", "e", "y", " ", "l", "a", "u", "n", "d", "e", "r", "i", "n", "g", " ", "s", "e", "r", "v", "i", "c", "e", "s">>,
     <<"P", "o", "n", "z", "i", " ", "s", "c", "h", "e", "m", "e", "s", " ", "o", "r", " ", "p", "y", "r", "a", "m", "i", "d", " ", "s", "c", "h", "e", "m", "e", "s">>,
     <<"H", "i", "g", "h", "-", "r", "i", "s", "k", " ", "f", "i", "n", "a", "n", "c", "i", "a", "l", " ", "s", "e", "r", "v", "i", "c", "e", "s">> >>

FallbackRestrictedActivities ==
  << <<"E", "-", "c", "i", "g", "a", "r", "e", "t", "t", "e", "s", " ", "a", "n", "d", " ", "v", "a", "p", "i", "n", "g", " ", "p", "r", "o", "d", "u", "c", "t", "s">>,
     <<"F", "o", "r", "e", "x", " ", "t", "r", "a", "d", "i", "n", "g">>,
     <<"B", "i", "n", "a", "r", "y", " ", "o", "p", "t", "i", "o", "n", "s">>,
     <<"D", "a", "t", "i", "n", "g", " ", "s", "e", "r", "v", "i", "c", "e", "s">>,
     <<"D", "e", "b", "t", " ", "c", "o", "l", "l", "e", "c", "t", "i", "o", "n">>,
     <<"P", "r", "e", "c", "i", "o", "u", "s", " ", "m", "e", "t", "a", "l", "s", " ", "t", "r", "a", "d", "i", "n", "g">>,
     <<"L", "o", "a", "n", " ", "s", "e", "r", "v", "i", "c", "e", "s">>,
     <<"I", "n", "v", "e", "s", "t", "m", "e", "n", "t", " ", "s", "e", "r", "v", "i", "c", "e", "s", " ", "w", "i", "t", "h", "o", "u", "t", " ", "p", "r", "o", "p", "e", "r", " ", "l", "i", "c", "e", "n", "s", "i", "n", "g">> >>

FallbackAcceptedCountries ==
  [ EU |-> "All EU/EEA countries are accepted",
    Other |-> "Case-by-case review for other countries" ]

ParsedAcceptedCountries ==
  [ EU |-> "All EU/EEA countries are accepted with standard processing",
    Other |-> "Non-EU countries require case-by-case review" ]

\* The fallback object has neither pageSource nor activitiesPageSource.
getFallbackCompanyRestrictions ==
  [ prohibitedActivities |-> FallbackProhibitedActivities,
    restrictedActivities |-> FallbackRestrictedActivities,
    restrictedCountries |-> FallbackRestrictedCountries,
    enhancedDueDiligence |-> FallbackEnhancedCountries,
    acceptedCountries |-> FallbackAcceptedCountries,
    pageSource |-> undefined,
    activitiesPageSource |-> undefined ]

\* statusCell.includes('no') || includes('prohibited') || includes('not accepted')
statusProhibits(statusCell) ==
  \/ includes(statusCell, <<"n", "o">>)
  \/ includes(statusCell, <<"p", "r", "o", "h", "i", "b", "i", "t", "e", "d">>)
  \/ includes(statusCell, <<"n", "o", "t", " ", "a", "c", "c", "e", "p", "t", "e", "d">>)

\* statusCell.includes('enhanced') || includes('edd') || includes('high risk')
statusEnhanced(statusCell) ==
  \/ includes(statusCell, <<"e", "n", "h", "a", "n", "c", "e", "d">>)
  \/ includes(statusCell, <<"e", "d", "d">>)
  \/ includes(statusCell, <<"h", "i", "g", "h", " ", "r", "i", "s", "k">>)

\* countryCell && countryCell.length > 1 && countryCell.length < 50
countryCellOk(countryCell) ==
  Truthy(countryCell) /\ Len(countryCell) > 1 /\ Len(countryCell) < 50

\* The loop over the <tr> rows.  A row is [cells |-> number of <td> cells,
\* country |-> tokens of the first cell, status |-> characters of the second
\* cell with tags removed and trimmed].  which is "restricted" or "edd".
RECURSIVE extractCountryRows(_, _)
extractCountryRows(rows, which) ==
  IF rows = <<>> THEN <<>>
  ELSE
    LET row == Head(rows)
        countryCell == cellText(row.country)
        statusCell == toLowerCase(row.status)
        hit == /\ row.cells >= 2
               /\ countryCellOk(countryCell)
               /\ IF which = "restricted"
                    THEN statusProhibits(statusCell)
                    ELSE ~statusProhibits(statusCell) /\ statusEnhanced(statusCell)
    IN (IF hit THEN <<countryCell>> ELSE <<>>) \o extractCountryRows(Tail(rows), which)

\* The loop over the <li> items of an activities section: an item is the
\* characters of the inner HTML, tags as single tokens.
RECURSIVE extractActivities(_)
extractActivities(items) ==
  IF items = <<>> THEN <<>>
  ELSE LET activity == trim(stripTags(Head(items)))
       IN (IF activity # <<>> /\ Len(activity) > 2 THEN <<activity>> ELSE <<>>)
            \o extractActivities(Tail(items))

parseCompanyRestrictions(countryPage, activitiesPage) ==
  IF ~countryPage.wellFormed \/ ~activitiesPage.wellFormed
    THEN Thrown(getFallbackCompanyRestrictions)
  ELSE
    LET countryBody == bodyOf(countryPage)
        activitiesBody == bodyOf(activitiesPage)
        restrictedCountries == extractCountryRows(countryBody.rows, "restricted")
        prohibitedActivities == extractActivities(activitiesBody.prohibited)
    IN IF Len(restrictedCountries) = 0 /\ Len(prohibitedActivities) = 0
         THEN Returned(getFallbackCompanyRestrictions)
         ELSE Returned(
                [ prohibitedActivities |-> prohibitedActivities,
                  restrictedActivities |-> extractActivities(activitiesBody.restrictedActs),
                  restrictedCountries |-> restrictedCountries,
                  enhancedDueDiligence |-> extractCountryRows(countryBody.rows, "edd"),
                  acceptedCountries |-> ParsedAcceptedCountries,
                  pageSource |-> CountryPageUrl,
                  activitiesPageSource |-> ActivitiesPageUrl ])

\* ------------------------------------------------------------------------
\* validateCompany: the decision, given the rule set getCompanyRestrictions
\* returned
\* ------------------------------------------------------------------------
COUNTRY_PAGE_TITLE == <<"Opportunities to open a company account by country">>
ACTIVITIES_PAGE_TITLE == <<"ANNEX 2. TYPES OF BUSINESS ACTIVITIES">>

CountryProhibitedStatus == "PROHIBITED (Red status in intranet)"
EddStatus == "Enhanced Due Diligence Required (Yellow/Orange status)"
EuStatus == "Accepted - Standard Processing (EU/EEA country)"
CaseByCaseStatus == "Requires Case-by-case Review"
ActivityProhibitedStatus == "PROHIBITED Activity (Red status)"
ActivityRestrictedStatus == "RESTRICTED Activity - Additional Review Required"
ActivityAcceptedStatus == "Accepted - Standard Activity"

\* a match that compares with the entry as written, not lower-cased
matchesActivityRawEntry(activityLower, entry) ==
  includes(activityLower, entry) \/ includes(entry, activityLower)

\* activityLower.includes(entryLower) || entryLower.includes(activityLower)
matchesActivity(activityLower, entry) ==
  LET entryLower == toLowerCase(entry)
  IN includes(activityLower, entryLower) \/ includes(entryLower, activityLower)

\* the loop over prohibitedActivities from index i: the index of the first
\* entry that matches (the loop returns there), 0 when none does
RECURSIVE firstMatchFrom(_, _, _)
firstMatchFrom(activityLower, list, i) ==
  IF i > Len(list) THEN 0
  ELSE IF matchesActivity(activityLower, list[i]) THEN i
  ELSE firstMatchFrom(activityLower, list, i + 1)

\* a loop that goes on to the last entry that matches
lastMatch(activityLower, list) ==
  LET hits == { i \in DOMAIN list : matchesActivity(activityLower, list[i]) }
  IN IF hits = {} THEN 0 ELSE CHOOSE i \in hits : \A j \in hits : j <= i

firstMatch(activityLower, list) == firstMatchFrom(activityLower, list, 1)

\* a classification that tests EU/EEA membership first
classifyCountryEuFirst(country, requiresEDD) ==
  IF isEUCountry(country)
    THEN [ countryStatus |-> EuStatus,
           countryRestrictions |->
             << Msg("is an EU/EEA country - Standard processing applies", <<country>>),
                Msg("Source: FNTT Space", COUNTRY_PAGE_TITLE) >> ]
  ELSE IF requiresEDD
    THEN [ countryStatus |-> EddStatus,
           countryRestrictions |->
             << Msg("requires ENHANCED DUE DILIGENCE", <<country>>),
                Msg("Source: FNTT Space", COUNTRY_PAGE_TITLE),
                Msg("Country marked as requiring enhanced monitoring in intranet", <<>>) >> ]
  ELSE [ countryStatus |-> CaseByCaseStatus,
         countryRestrictions |->
           << Msg("requires individual assessment for account opening", <<country>>),
              Msg("Source: FNTT Space", COUNTRY_PAGE_TITLE) >> ]

\* if (requiresEDD) ... else if (isEU) ... else ...
classifyCountry(country, requiresEDD) ==
  IF requiresEDD
    THEN [ countryStatus |-> EddStatus,
           countryRestrictions |->
             << Msg("requires ENHANCED DUE DILIGENCE", <<country>>),
                Msg("Source: FNTT Space", COUNTRY_PAGE_TITLE),
                Msg("Country marked as requiring enhanced monitoring in intranet", <<>>) >> ]
  ELSE IF isEUCountry(country)
    THEN [ countryStatus |-> EuStatus,
           countryRestrictions |->
             << Msg("is an EU/EEA country - Standard processing applies", <<country>>),
                Msg("Source: FNTT Space", COUNTRY_PAGE_TITLE) >> ]
  ELSE [ countryStatus |-> CaseByCaseStatus,
         countryRestrictions |->
           << Msg("requires individual assessment for account opening", <<country>>),
              Msg("Source: FNTT Space", COUNTRY_PAGE_TITLE) >> ]

\* a loop that appends the conditions for the first matching entry only
RECURSIVE restrictedMatchesOnce(_, _)
restrictedMatchesOnce(activityLower, list) ==
  IF list = <<>> THEN [restrictions |-> <<>>, conditions |-> <<>>]
  ELSE
    LET rest == restrictedMatchesOnce(activityLower, Tail(list))
    IN IF matchesActivity(activityLower, Head(list))
         THEN [ restrictions |->
                  << Msg("Activity is RESTRICTED (requires additional compliance review)",
                         Head(list)),
                     Msg("Source: FNTT Space", ACTIVITIES_PAGE_TITLE),
                     Msg("This activity is listed in the RESTRICTED activities section", <<>>) >>
                  \o rest.restrictions,
                conditions |->
                  << "Valid business licenses MUST be provided",
                     "Enhanced compliance monitoring will be applied",
                     "Additional documentation may be requested during review" >> ]
         ELSE rest

\* the body of the loop over restrictedActivities, for the entries that match
RECURSIVE restrictedMatches(_, _)
restrictedMatches(activityLower, list) ==
  IF list = <<>> THEN [restrictions |-> <<>>, conditions |-> <<>>]
  ELSE
    LET rest == restrictedMatches(activityLower, Tail(list))
    IN IF matchesActivity(activityLower, Head(list))
         THEN [ restrictions |->
                  << Msg("Activity is RESTRICTED (requires additional compliance review)",
                         Head(list)),
                     Msg("Source: FNTT Space", ACTIVITIES_PAGE_TITLE),
                     Msg("This activity is listed in the RESTRICTED activities section", <<>>) >>
                  \o rest.restrictions,
                conditions |->
                  << "Valid business licenses MUST be provided",
                     "Enhanced compliance monitoring will be applied",
                     "Additional documentation may be requested during review" >>
                  \o rest.conditions ]
         ELSE rest

eddConditions ==
  << "Enhanced due diligence documentation REQUIRED",
     "Company beneficial ownership verification REQUIRED",
     "Source of funds documentation REQUIRED",
     "Additional KYC/AML checks will be conducted" >>

\* a return for a prohibited activity that keeps the conditions of the country
CompanyProhibitedActivityWithConditions(restrictions, cls, prohibited) ==
  [ isPossible |-> FALSE,
    countryStatus |-> cls.countryStatus,
    activityStatus |-> ActivityProhibitedStatus,
    restrictions |-> cls.countryRestrictions,
    conditions |-> IF cls.countryStatus = EddStatus THEN eddConditions ELSE <<>>,
    intranetPageSource |-> restrictions.pageSource,
    countryPageId |-> "FNTT Space",
    activitiesPageId |-> restrictions.activitiesPageSource ]

\* the return inside the loop over prohibitedActivities
CompanyProhibitedActivity(restrictions, cls, prohibited) ==
  [ isPossible |-> FALSE,
    countryStatus |-> cls.countryStatus,
    activityStatus |-> ActivityProhibitedStatus,
    restrictions |->
      cls.countryRestrictions
      \o << Msg("Business activity is NOT ACCEPTED", prohibited),
            Msg("Source: FNTT Space", ACTIVITIES_PAGE_TITLE),
            Msg("This activity type is listed in the PROHIBITED activities section", <<>>),
            Msg("View full list", <<restrictions.activitiesPageSource>>),
            Msg("Account opening is NOT POSSIBLE for this type of business activity", <<>>) >>,
    conditions |-> <<>>,
    intranetPageSource |-> restrictions.pageSource,
    countryPageId |-> "FNTT Space",
    activitiesPageId |-> restrictions.activitiesPageSource ]

validateCompanyWith(params, restrictions) ==
  IF arrayIncludes(restrictions.restrictedCountries, params.companyCountry)
    THEN [ isPossible |-> FALSE,
           countryStatus |-> CountryProhibitedStatus,
           activityStatus |-> "N/A",
           restrictions |->
             << Msg("Company accounts are NOT ACCEPTED", <<params.companyCountry>>),
                Msg("Source: FNTT Space", COUNTRY_PAGE_TITLE),
                Msg("Country marked as PROHIBITED/RED in the country acceptance table", <<>>),
                Msg("View full list", <<restrictions.pageSource>>),
                Msg("This country is listed in the restricted countries section", <<>>) >>,
           conditions |-> <<>>,
           intranetPageSource |-> restrictions.pageSource,
           countryPageId |-> "FNTT Space",
           activitiesPageId |-> restrictions.activitiesPageSource ]
  ELSE
    LET requiresEDD ==
          arrayIncludes(restrictions.enhancedDueDiligence, params.companyCountry)
        cls == classifyCountry(params.companyCountry, requiresEDD)
        activityLower == toLowerCase(params.companyActivity)
        p == firstMatch(activityLower, restrictions.prohibitedActivities)
        matched == restrictedMatches(activityLower, restrictions.restrictedActivities)
        hasRestrictedActivity == matched.restrictions # <<>>
    IN IF p # 0
         THEN CompanyProhibitedActivity(restrictions, cls,
                                        restrictions.prohibitedActivities[p])
         ELSE
           [ isPossible |-> TRUE,
             countryStatus |-> cls.countryStatus,
             activityStatus |->
               IF hasRestrictedActivity THEN ActivityRestrictedStatus
                                        ELSE ActivityAcceptedStatus,
             restrictions |->
               cls.countryRestrictions
               \o matched.restrictions
               \o (IF hasRestrictedActivity THEN <<>>
                   ELSE << Msg("Business activity is ACCEPTED with standard processing", <<>>),
                           Msg("Source: FNTT Space", ACTIVITIES_PAGE_TITLE) >>)
               \o << Msg("Country policy", <<restrictions.pageSource>>),
                     Msg("Activities policy", <<restrictions.activitiesPageSource>>) >>,
             conditions |->
               matched.conditions \o (IF requiresEDD THEN eddConditions ELSE <<>>),
             intranetPageSource |-> restrictions.pageSource,
             countryPageId |-> "FNTT Space",
             activitiesPageId |-> restrictions.activitiesPageSource ]

\* ------------------------------------------------------------------------
\* validateIdentifier (services/companyApiService.ts): an identifier is a
\* sequence of one-character strings
\* ------------------------------------------------------------------------
Digits == <<"0", "1", "2", "3", "4", "5", "6", "7", "8", "9">>

\* the characters /\s/ matches, of those that are typed
Whitespace == {" ", "\t", "\n"}

\* lower-case letter -> upper-case letter
UpperOf == [l \in {LowerChars[i] : i \in 1..26} |->
              UpperChars[CHOOSE i \in 1..26 : LowerChars[i] = l]]

toUpperCaseChar(c) == IF c \in DOMAIN UpperOf THEN UpperOf[c] ELSE c

\* String.prototype.toUpperCase
toUpperCase(s) == [i \in 1..Len(s) |-> toUpperCaseChar(s[i])]

\* [A-Z] and [A-Z0-9]
isUpperLetter(c) == \E i \in 1..26 : UpperChars[i] = c
isUpperAlnum(c) == isUpperLetter(c) \/ \E i \in 1..10 : Digits[i] = c

\* replace(/\s/g, '')
RECURSIVE removeWhitespace(_)
removeWhitespace(s) ==
  IF s = <<>> THEN <<>>
  ELSE IF Head(s) \in Whitespace THEN removeWhitespace(Tail(s))
  ELSE <<Head(s)>> \o removeWhitespace(Tail(s))

\* String.prototype.substring(from, to), as one string
RECURSIVE substring(_, _, _)
substring(s, from, to) ==
  IF from >= to \/ from >= Len(s) THEN ""
  ELSE s[from + 1] \o substring(s, from + 1, to)

\* IBAN_COUNTRY_CODES: country code -> name and IBAN length
IBAN_COUNTRY_CODES ==
     "AL" :> [name |-> "Albania", length |-> 28]
  @@ "AD" :> [name |-> "Andorra", length |-> 24]
  @@ "AT" :> [name |-> "Austria", length |-> 20]
  @@ "AZ" :> [name |-> "Azerbaijan", length |-> 28]
  @@ "BH" :> [name |-> "Bahrain", length |-> 22]
  @@ "BE" :> [name |-> "Belgium", length |-> 16]
  @@ "BA" :> [name |-> "Bosnia and Herzegovina", length |-> 20]
  @@ "BR" :> [name |-> "Brazil", length |-> 29]
  @@ "BG" :> [name |-> "Bulgaria", length |-> 22]
  @@ "CR" :> [name |-> "Costa Rica", length |-> 22]
  @@ "HR" :> [name |-> "Croatia", length |-> 21]
  @@ "CY" :> [name |-> "Cyprus", length |-> 28]
  @@ "CZ" :> [name |-> "Czech Republic", length |-> 24]
  @@ "DK" :> [name |-> "Denmark", length |-> 18]
  @@ "DO" :> [name |-> "Dominican Republic", length |-> 28]
  @@ "EE" :> [name |-> "Estonia", length |-> 20]
  @@ "FO" :> [name |-> "Faroe Islands", length |-> 18]
  @@ "FI" :> [name |-> "Finland", length |-> 18]
  @@ "FR" :> [name |-> "France", length |-> 27]
  @@ "GE" :> [name |-> "Georgia", length |-> 22]
  @@ "DE" :> [name |-> "Germany", length |-> 22]
  @@ "GI" :> [name |-> "Gibraltar", length |-> 23]
  @@ "GR" :> [name |-> "Greece", length |-> 27]
  @@ "GL" :> [name |-> "Greenland", length |-> 18]
  @@ "GT" :> [name |-> "Guatemala", length |-> 28]
  @@ "HU" :> [name |-> "Hungary", length |-> 28]
  @@ "IS" :> [name |-> "Iceland", length |-> 26]
  @@ "IE" :> [name |-> "Ireland", length |-> 22]
  @@ "IL" :> [name |-> "Israel", length |-> 23]
  @@ "IT" :> [name |-> "Italy", length |-> 27]
  @@ "JO" :> [name |-> "Jordan", length |-> 30]
  @@ "KZ" :> [name |-> "Kazakhstan", length |-> 20]
  @@ "XK" :> [name |-> "Kosovo", length |-> 20]
  @@ "KW" :> [name |-> "Kuwait", length |-> 30]
  @@ "LV" :> [name |-> "Latvia", length |-> 21]
  @@ "LB" :> [name |-> "Lebanon", length |-> 28]
  @@ "LI" :> [name |-> "Liechtenstein", length |-> 21]
  @@ "LT" :> [name |-> "Lithuania", length |-> 20]
  @@ "LU" :> [name |-> "Luxembourg", length |-> 20]
  @@ "MK" :> [name |-> "North Macedonia", length |-> 19]
  @@ "MT" :> [name |-> "Malta", length |-> 31]
  @@ "MR" :> [name |-> "Mauritania", length |-> 27]
  @@ "MU" :> [name |-> "Mauritius", length |-> 30]
  @@ "MC" :> [name |-> "Monaco", length |-> 27]
  @@ "MD" :> [name |-> "Moldova", length |-> 24]
  @@ "ME" :> [name |-> "Montenegro", length |-> 22]
  @@ "NL" :> [name |-> "Netherlands", length |-> 18]
  @@ "NO" :> [name |-> "Norway", length |-> 15]
  @@ "PK" :> [name |-> "Pakistan", length |-> 24]
  @@ "PS" :> [name |-> "Palestine", length |-> 29]
  @@ "PL" :> [name |-> "Poland", length |-> 28]
  @@ "PT" :> [name |-> "Portugal", length |-> 25]
  @@ "QA" :> [name |-> "Qatar", length |-> 29]
  @@ "RO" :> [name |-> "Romania", length |-> 24]
  @@ "SM" :> [name |-> "San Marino", length |-> 27]
  @@ "SA" :> [name |-> "Saudi Arabia", length |-> 24]
  @@ "RS" :> [name |-> "Serbia", length |-> 22]
  @@ "SK" :> [name |-> "Slovakia", length |-> 24]
  @@ "SI" :> [name |-> "Slovenia", length |-> 19]
  @@ "ES" :> [name |-> "Spain", length |-> 24]
  @@ "SE" :> [name |-> "Sweden", length |-> 24]
  @@ "CH" :> [name |-> "Switzerland", length |-> 21]
  @@ "TN" :> [name |-> "Tunisia", length |-> 24]
  @@ "TR" :> [name |-> "Turkey", length |-> 26]
  @@ "AE" :> [name |-> "United Arab Emirates", length |-> 23]
  @@ "GB" :> [name |-> "United Kingdom", length |-> 22]
  @@ "VG" :> [name |-> "Virgin Islands, British", length |-> 24]

\* /^[A-Z]{2}/.test(cleanIdentifier)
startsWithTwoLetters(clean) ==
  Len(clean) >= 2 /\ isUpperLetter(clean[1]) /\ isUpperLetter(clean[2])

\* /^[A-Z]{6}[A-Z0-9]{2}([A-Z0-9]{3})?$/.test(cleanIdentifier)
matchesSwiftPattern(clean) ==
  /\ Len(clean) \in {8, 11}
  /\ \A i \in 1..6 : isUpperLetter(clean[i])
  /\ \A i \in 7..Len(clean) : isUpperAlnum(clean[i])

Validation(isValid, type, country, branch, supportedTransfers, message) ==
  [ isValid |-> isValid, type |-> type, country |-> country, branch |-> branch,
    supportedTransfers |-> supportedTransfers, message |-> message ]

validateIdentifier(identifier) ==
  LET cleanIdentifier == toUpperCase(removeWhitespace(identifier))
  IN IF startsWithTwoLetters(cleanIdentifier)
       THEN LET countryCode == substring(cleanIdentifier, 0, 2)
            IN IF countryCode \notin DOMAIN IBAN_COUNTRY_CODES
                 THEN Validation(FALSE, "Unknown", undefined, undefined, <<>>,
                                 Msg("Unknown country code", countryCode))
               ELSE IF Len(cleanIdentifier) # IBAN_COUNTRY_CODES[countryCode].length
                 THEN Validation(FALSE, "IBAN", undefined, undefined, <<>>,
                                 Msg("Invalid IBAN length for",
                                     IBAN_COUNTRY_CODES[countryCode].name))
               ELSE Validation(TRUE, "IBAN", IBAN_COUNTRY_CODES[countryCode].name,
                               "N/A", <<"SEPA", "SWIFT">>,
                               Msg("Valid IBAN for",
                                   IBAN_COUNTRY_CODES[countryCode].name))
     ELSE IF matchesSwiftPattern(cleanIdentifier)
       THEN LET countryCode == substring(cleanIdentifier, 4, 6)
            IN Validation(TRUE, "SWIFT",
                          IF countryCode \in DOMAIN IBAN_COUNTRY_CODES
                            THEN IBAN_COUNTRY_CODES[countryCode].name
                            ELSE "Unknown",
                          IF Len(cleanIdentifier) = 11
                            THEN substring(cleanIdentifier, 8, 11)
                            ELSE "Head Office",
                          <<"SWIFT", "International Wire">>,
                          Msg("Valid SWIFT/BIC code", ""))
     ELSE Validation(FALSE, "Unknown", undefined, undefined, <<>>,
                     Msg("Invalid format", ""))

\* ------------------------------------------------------------------------
\* isValidIBAN (App.tsx) and the submit handler of IbanSwiftValidator
\* (components/Tools.tsx)
\* ------------------------------------------------------------------------

\* replace(/ /g, ''): the space only
RECURSIVE removeSpaces(_)
removeSpaces(s) ==
  IF s = <<>> THEN <<>>
  ELSE IF Head(s) = " " THEN removeSpaces(Tail(s))
  ELSE <<Head(s)>> \o removeSpaces(Tail(s))

\* String.prototype.trim on an identifier: white space at both ends
RECURSIVE trimIdentifierStart(_)
trimIdentifierStart(s) ==
  IF s # <<>> /\ Head(s) \in Whitespace THEN trimIdentifierStart(Tail(s)) ELSE s

RECURSIVE trimIdentifierEnd(_)
trimIdentifierEnd(s) ==
  IF s # <<>> /\ s[Len(s)] \in Whitespace
    THEN trimIdentifierEnd(SubSeq(s, 1, Len(s) - 1))
    ELSE s

trimIdentifier(s) == trimIdentifierEnd(trimIdentifierStart(s))

\* /^[A-Z]{2}[0-9]{2}[A-Z0-9]{4,30}$/.test(cleanedIban)
matchesIbanPattern(cleanedIban) ==
  /\ Len(cleanedIban) >= 8 /\ Len(cleanedIban) <= 34
  /\ isUpperLetter(cleanedIban[1]) /\ isUpperLetter(cleanedIban[2])
  /\ \A i \in 3..4 : \E k \in 1..10 : Digits[k] = cleanedIban[i]
  /\ \A i \in 5..Len(cleanedIban) : isUpperAlnum(cleanedIban[i])

\* BigInt(numericIban) % 97n, digit by digit: a letter contributes the two
\* digits of charCode - 55 (A = 10, ..., Z = 35), a digit itself
RECURSIVE mod97(_, _)
mod97(chars, acc) ==
  IF chars = <<>> THEN acc
  ELSE mod97(Tail(chars),
             IF isUpperLetter(Head(chars))
               THEN (acc * 100 + 9 + (CHOOSE k \in 1..26 : UpperChars[k] = Head(chars))) % 97
               ELSE (acc * 10 + (CHOOSE k \in 1..10 : Digits[k] = Head(chars)) - 1) % 97)

isValidIBAN(iban) ==
  LET cleanedIban == toUpperCase(removeSpaces(iban))
  IN IF ~matchesIbanPattern(cleanedIban) THEN FALSE
     ELSE LET rearrangedIban == SubSeq(cleanedIban, 5, Len(cleanedIban))
                                  \o SubSeq(cleanedIban, 1, 4)
          IN mod97(rearrangedIban, 0) = 1

\* handleSubmit: what setError and setResult are left with
handleSubmit(identifier) ==
  LET null == Validation(FALSE, "none", undefined, undefined, <<>>, Msg("", ""))
      isPotentiallyIban ==
        startsWithTwoLetters(toUpperCase(trimIdentifier(identifier)))
  IN IF trimIdentifier(identifier) = <<>>
       THEN [ error |-> "Please enter an IBAN or SWIFT code.", result |-> null ]
     ELSE IF isPotentiallyIban /\ ~isValidIBAN(identifier)
         THEN [ error |-> "The IBAN has an invalid format. Please check the length and characters.",
                result |-> null ]
         ELSE [ error |-> undefined,
                result |-> validateIdentifier(trimIdentifier(identifier)) ]

\* ------------------------------------------------------------------------
\* State
\* ------------------------------------------------------------------------
VARIABLES
  activeTool,                \* App: the tool that is open, whose form submits
  config,                    \* this.config: apiKey and email ('' when not set)
  now,                       \* Date.now(), in ms
  ticks,                     \* times the clock has advanced
  transferRulesCache,        \* Map: cache key -> [data, timestamp]
  companyRestrictionsCache,  \* Map: cache key -> [data, timestamp]
  calls,                     \* the calls of checkTransfer / validateCompany in progress
  settled,                   \* the call whose promise settled at this step, if one did
  ruleSet,                   \* decision engines alone: the rule set handed in
  decided,                   \* decision engines alone: the decision made
  validated                  \* IbanSwiftValidator: the identifier, the error and the result

vars == << activeTool, config, now, ticks, transferRulesCache,
           companyRestrictionsCache, calls, settled, ruleSet, decided,
           validated >>

acquisitionVars == << activeTool, config, now, ticks, transferRulesCache,
                      companyRestrictionsCache, calls, settled >>

CallIds == 1..MaxCalls
Docs == {"transfer", "country", "activities"}

\* the arguments of either operation, in one shape
TransferParams(s, r, c) ==
  [ senderNationality |-> s, recipientCountry |-> r, currency |-> c,
    companyCountry |-> "", companyActivity |-> <<>> ]

CompanyParams(c, a) ==
  [ senderNationality |-> "", recipientCountry |-> "", currency |-> "",
    companyCountry |-> c, companyActivity |-> a ]

NoParams == TransferParams("", "", "")
NoRules == [none |-> TRUE]
NoResult == [none |-> TRUE]
NoPage == [wellFormed |-> FALSE, storage |-> NoBody, view |-> NoBody]
\* attempts: calls of fetchPageContent / fetchPageByTitle for the document;
\* requests: calls of fetch(url) they made
NoFetch == [state |-> "none", page |-> NoPage, attempts |-> 0, requests |-> 0]
NoFetches == [d \in Docs |-> NoFetch]

\* the local variable cached: Map.get gave an entry, or undefined
NoEntry == [present |-> FALSE, data |-> NoRules, timestamp |-> 0]

\* A call.  pc: idle (no call in this slot), fetching (suspended on its
\* fetches), stray (settled, a fetch of it still in flight), done (the promise
\* resolved with result), rejected (the promise rejected).  readAt and
\* cached: Date.now() and the entry as read at the cache check.  source: where
\* the rule set came from (cache, fetch or fallback).  fetches: the request
\* issued for each document, if any, and the page it resolved with.
IdleCall ==
  [ op |-> "none", params |-> NoParams, pc |-> "idle", readAt |-> 0,
    cached |-> NoEntry, source |-> "none", rules |-> NoRules,
    result |-> NoResult, fetches |-> NoFetches ]

\* a credentials test that fails only when both are missing
credentialsBothMissing == ~Truthy(config.apiKey) /\ ~Truthy(config.email)

\* !this.config.apiKey || !this.config.email
credentialsMissing == ~Truthy(config.apiKey) \/ ~Truthy(config.email)

\* Map.get(key)
cacheGet(cache, key) ==
  IF key \in DOMAIN cache
    THEN [present |-> TRUE, data |-> cache[key].data, timestamp |-> cache[key].timestamp]
    ELSE NoEntry

\* a freshness test that still accepts an entry of exactly cacheExpiry ms
cacheHitAtExpiry(cached, dateNow) ==
  cached.present /\ dateNow - cached.timestamp <= cacheExpiry

\* cached && Date.now() - cached.timestamp < this.cacheExpiry
cacheHit(cached, dateNow) ==
  cached.present /\ dateNow - cached.timestamp < cacheExpiry

\* a write that keeps the entry that is there
cacheSetKeepExisting(cache, key, data) ==
  IF key \in DOMAIN cache THEN cache
  ELSE (key :> [data |-> data, timestamp |-> now]) @@ cache

\* Map.set(key, {data, timestamp: Date.now()})
cacheSet(cache, key, data) ==
  (key :> [data |-> data, timestamp |-> now]) @@ cache

\* ------------------------------------------------------------------------
\* Rule Source Client and Acquisition Orchestrator
\*
\* A response is what the remote does with one request: kind is networkError
\* (fetch rejects), notOk (response.ok is false), jsonError (response.json()
\* rejects), notFound (a search with no results) or ok, with the page.
\* ------------------------------------------------------------------------
FailureKinds == {"networkError", "notOk", "jsonError"}
Response(kind, page) == [kind |-> kind, page |-> page]

\* fetchPageContent / fetchPageByTitle called without credentials: it throws
\* before fetch(url)
refused(f) == [f EXCEPT !.state = "rejected", !.attempts = @ + 1]

\* a call that asks the remote for the document twice
fetchTwice(f) ==
  [f EXCEPT !.state = "inflight", !.attempts = @ + 1, !.requests = @ + 2]

\* fetchPageContent / fetchPageByTitle called with credentials, up to its
\* await: fetch(url) is called once
fetch(f) == [f EXCEPT !.state = "inflight", !.attempts = @ + 1, !.requests = @ + 1]

\* fetchPageContent after the credentials check: the page, or it throws
fetchPageContent(resp) ==
  IF resp.kind = "ok" THEN Returned(resp.page) ELSE Thrown(NoPage)

\* fetchPageByTitle after the credentials check: data.results[0], or it throws
\* (also when data.results is missing or empty)
fetchPageByTitle(resp) ==
  IF resp.kind = "ok" THEN Returned(resp.page) ELSE Thrown(NoPage)

\* What an acquisition ends with: the rule set, where it came from, whether
\* the cache entry is written, and whether the promise rejected.
Acquired(rules, source, store) ==
  [rejected |-> FALSE, rules |-> rules, source |-> source, store |-> store]

\* getTransferRules without its catch: what is thrown inside rejects the promise
getTransferRulesNoCatch(fetched) ==
  LET parsed == IF fetched.threw THEN Thrown(getFallbackTransferRules)
                ELSE parseTransferRules(fetched.value)
  IN IF parsed.threw
       THEN [ rejected |-> TRUE, rules |-> NoRules, source |-> "none",
              store |-> FALSE ]
       ELSE Acquired(parsed.value, "fetch", TRUE)

\* getTransferRules from the end of the await: the try block and its catch
getTransferRules(fetched) ==
  LET parsed == IF fetched.threw THEN Thrown(getFallbackTransferRules)
                ELSE parseTransferRules(fetched.value)
  IN IF parsed.threw
       THEN Acquired(getFallbackTransferRules, "fallback", FALSE)
       ELSE Acquired(parsed.value, "fetch", TRUE)

\* an acquisition that goes on with the document that came when the other
\* failed, reading the missing one as a page without body
getCompanyRestrictionsPartial(countryFetched, activitiesFetched) ==
  LET noBodyPage == [wellFormed |-> TRUE, storage |-> NoBody, view |-> NoBody]
      parsed == parseCompanyRestrictions(
                  IF countryFetched.threw THEN noBodyPage ELSE countryFetched.value,
                  IF activitiesFetched.threw THEN noBodyPage
                                             ELSE activitiesFetched.value)
  IN IF parsed.threw
       THEN Acquired(getFallbackCompanyRestrictions, "fallback", FALSE)
       ELSE Acquired(parsed.value, "fetch", TRUE)

\* getCompanyRestrictions from the end of the await of Promise.all, which
\* threw if either fetch did
getCompanyRestrictions(countryFetched, activitiesFetched) ==
  LET parsed == IF countryFetched.threw \/ activitiesFetched.threw
                  THEN Thrown(getFallbackCompanyRestrictions)
                  ELSE parseCompanyRestrictions(countryFetched.value,
                                                activitiesFetched.value)
  IN IF parsed.threw
       THEN Acquired(getFallbackCompanyRestrictions, "fallback", FALSE)
       ELSE Acquired(parsed.value, "fetch", TRUE)

\* a call that, when its acquisition failed, goes on with the entry it read
\* from the cache, whatever its age
DoneCallServingStale(call, acq) ==
  LET stale == ~acq.rejected /\ acq.source = "fallback" /\ call.cached.present
      rules == IF stale THEN call.cached.data ELSE acq.rules
  IN [ call EXCEPT
         !.pc = IF acq.rejected THEN "rejected" ELSE "done",
         !.source = IF stale THEN "cache" ELSE acq.source,
         !.rules = rules,
         !.result = IF acq.rejected THEN NoResult
                    ELSE IF call.op = "checkTransfer"
                      THEN checkTransferWith(call.params, rules)
                      ELSE validateCompanyWith(call.params, rules) ]

\* a call that, when its acquisition failed, goes on waiting
DoneCallWaitsOnFailure(call, acq) ==
  [ call EXCEPT
      !.pc = IF acq.rejected THEN "rejected"
             ELSE IF acq.source = "fallback" THEN call.pc ELSE "done",
      !.source = acq.source,
      !.rules = acq.rules,
      !.result = IF acq.rejected THEN NoResult
                 ELSE IF call.op = "checkTransfer"
                   THEN checkTransferWith(call.params, acq.rules)
                   ELSE validateCompanyWith(call.params, acq.rules) ]

\* the call once its rule set is there: checkTransfer / validateCompany run on
DoneCall(call, acq) ==
  [ call EXCEPT
      !.pc = IF acq.rejected THEN "rejected" ELSE "done",
      !.source = acq.source,
      !.rules = acq.rules,
      !.result = IF acq.rejected THEN NoResult
                 ELSE IF call.op = "checkTransfer"
                   THEN checkTransferWith(call.params, acq.rules)
                   ELSE validateCompanyWith(call.params, acq.rules) ]

\* the slot of a call that settled: free, unless a fetch of it is in flight
SlotAfter(call) ==
  IF \E d \in Docs : call.fetches[d].state = "inflight"
    THEN [IdleCall EXCEPT !.op = call.op, !.pc = "stray", !.fetches = call.fetches]
    ELSE IdleCall

\* a slot that is given only while no call is fetching
FreeSlotWhenNoneFetching(id) ==
  /\ calls[id].pc = "idle"
  /\ \A other \in CallIds : other < id => calls[other].pc # "idle"
  /\ \A other \in CallIds : calls[other].pc # "fetching"

\* the slot a call that suspends takes: the slots are interchangeable
FreeSlot(id) ==
  /\ calls[id].pc = "idle"
  /\ \A other \in CallIds : other < id => calls[other].pc # "idle"

\* ------------------------------------------------------------------------
\* Actions
\* ------------------------------------------------------------------------

\* checkTransfer(params) up to its first suspension: the cache read, the
\* credentials check of fetchPageContent, the fetch being issued.  On a
\* cache hit or without credentials it settles without suspending.
CheckTransferCall(params) ==
  /\ activeTool = TRANSFER_CHECK
  /\ LET cached == cacheGet(transferRulesCache, TransferCacheKey)
         call == [ IdleCall EXCEPT !.op = "checkTransfer", !.params = params,
                                   !.readAt = now, !.cached = cached ]
     IN IF cacheHit(cached, now)
          THEN /\ settled' = DoneCall(call, Acquired(cached.data, "cache", FALSE))
               /\ calls' = calls
        ELSE IF credentialsMissing
          THEN /\ settled' = DoneCall([call EXCEPT !.fetches["transfer"] = refused(@)],
                                       getTransferRules(Thrown(NoPage)))
               /\ calls' = calls
        ELSE \E id \in CallIds :
               /\ FreeSlot(id)
               /\ calls' = [ calls EXCEPT ![id] =
                               [ call EXCEPT !.pc = "fetching",
                                             !.fetches["transfer"] = fetch(@) ] ]
               /\ settled' = IdleCall
  /\ UNCHANGED << activeTool, config, now, ticks, transferRulesCache,
                  companyRestrictionsCache, ruleSet, decided, validated >>

\* The fetch of checkTransfer's page completes with resp; the rest of
\* getTransferRules and of checkTransfer runs.
TransferFetchReturns(id, resp) ==
  /\ calls[id].pc = "fetching"
  /\ calls[id].op = "checkTransfer"
  /\ calls[id].fetches["transfer"].state = "inflight"
  /\ LET fetched == fetchPageContent(resp)
         acq == getTransferRules(fetched)
         call == [ calls[id] EXCEPT
                     !.fetches["transfer"] =
                        IF fetched.threw THEN [@ EXCEPT !.state = "rejected"]
                        ELSE [@ EXCEPT !.state = "resolved", !.page = fetched.value] ]
     IN /\ settled' = DoneCall(call, acq)
        /\ calls' = [calls EXCEPT ![id] = SlotAfter(call)]
        /\ transferRulesCache' =
             IF acq.store THEN cacheSet(transferRulesCache, TransferCacheKey, acq.rules)
             ELSE transferRulesCache
  /\ UNCHANGED << activeTool, config, now, ticks, companyRestrictionsCache,
                  ruleSet, decided, validated >>

\* validateCompany(params) up to its first suspension: the cache read, the
\* credentials checks, both fetches being issued before Promise.all.
ValidateCompanyCall(params) ==
  /\ activeTool = COMPANY_VALIDATION
  /\ LET cached == cacheGet(companyRestrictionsCache, CompanyCacheKey)
         call == [ IdleCall EXCEPT !.op = "validateCompany", !.params = params,
                                   !.readAt = now, !.cached = cached ]
     IN IF cacheHit(cached, now)
          THEN /\ settled' = DoneCall(call, Acquired(cached.data, "cache", FALSE))
               /\ calls' = calls
        ELSE IF credentialsMissing
          THEN /\ settled' = DoneCall([call EXCEPT !.fetches["country"] = refused(@),
                                                    !.fetches["activities"] = refused(@)],
                                       getCompanyRestrictions(Thrown(NoPage),
                                                              Thrown(NoPage)))
               /\ calls' = calls
        ELSE \E id \in CallIds :
               /\ FreeSlot(id)
               /\ calls' = [ calls EXCEPT ![id] =
                               [ call EXCEPT !.pc = "fetching",
                                             !.fetches["country"] = fetch(@),
                                             !.fetches["activities"] = fetch(@) ] ]
               /\ settled' = IdleCall
  /\ UNCHANGED << activeTool, config, now, ticks, transferRulesCache,
                  companyRestrictionsCache, ruleSet, decided, validated >>

\* One of validateCompany's two fetches completes with resp.  Promise.all
\* rejects at the first rejection and resolves when both have resolved; a
\* fetch that completes after the call has settled changes nothing else.
CompanyFetchReturns(id, doc, resp) ==
  /\ calls[id].op = "validateCompany"
  /\ doc \in {"country", "activities"}
  /\ calls[id].fetches[doc].state = "inflight"
  /\ LET fetched == fetchPageByTitle(resp)
         call == [ calls[id] EXCEPT
                     !.fetches[doc] =
                        IF fetched.threw THEN [@ EXCEPT !.state = "rejected"]
                        ELSE [@ EXCEPT !.state = "resolved", !.page = fetched.value] ]
         other == IF doc = "country" THEN "activities" ELSE "country"
         settles == /\ call.pc = "fetching"
                    /\ \/ fetched.threw
                       \/ call.fetches[other].state = "resolved"
         acq == getCompanyRestrictions(
                  IF call.fetches["country"].state = "resolved"
                    THEN Returned(call.fetches["country"].page) ELSE Thrown(NoPage),
                  IF call.fetches["activities"].state = "resolved"
                    THEN Returned(call.fetches["activities"].page) ELSE Thrown(NoPage))
     IN IF settles
          THEN /\ settled' = DoneCall(call, acq)
               /\ calls' = [calls EXCEPT ![id] = SlotAfter(call)]
               /\ companyRestrictionsCache' =
                    IF acq.store
                      THEN cacheSet(companyRestrictionsCache, CompanyCacheKey, acq.rules)
                      ELSE companyRestrictionsCache
          ELSE /\ settled' = IdleCall
               /\ calls' = [ calls EXCEPT ![id] =
                               IF call.pc = "stray" THEN IdleCall ELSE call ]
               /\ companyRestrictionsCache' = companyRestrictionsCache
  /\ UNCHANGED << activeTool, config, now, ticks, transferRulesCache, ruleSet, decided, validated >>

\* Time passes.
TickSteps == {1, cacheExpiry - 1}

Tick(d) ==
  /\ ticks < MaxTicks
  /\ ticks' = ticks + 1
  /\ now' = now + d
  /\ settled' = IdleCall
  /\ UNCHANGED << activeTool, config, transferRulesCache, companyRestrictionsCache,
                  calls, ruleSet, decided, validated >>

\* ------------------------------------------------------------------------
\* Inputs: pages the remote may serve and arguments the callers may pass
\* ------------------------------------------------------------------------
Countries == <<"Lithuania", "Germany", "Japan", "Russia", "Turkey", "Austria">>
Currencies == {"EUR", "USD", "RUB", "JPY"}

Page(body) == [wellFormed |-> TRUE, storage |-> body, view |-> NoBody]
ViewPage(body) == [wellFormed |-> TRUE, storage |-> NoBody, view |-> body]
EmptyPage == [wellFormed |-> TRUE, storage |-> NoBody, view |-> NoBody]
MalformedPage == NoPage

\* the inner HTML of an item with text c, written in one of three ways
Wrap(c, i) ==
  CASE i % 3 = 1 -> <<c>>
    [] i % 3 = 2 -> <<"<b>", c, "</b>">>
    [] OTHER -> <<" ", "<span>", c, "</span>", " ">>

\* strictly increasing sequences of indices into a pool of n, of length <= k
AscendingSeqs(n, k) ==
  { q \in UNION { [1..len -> 1..n] : len \in 0..k } :
      \A i \in 1..(Len(q) - 1) : q[i] < q[i + 1] }

\* sequences of distinct indices into a pool of n, of length <= k
DistinctSeqs(n, k) ==
  { q \in UNION { [1..len -> 1..n] : len \in 0..k } :
      \A i, j \in 1..Len(q) : i # j => q[i] # q[j] }

\* a list section: a blank item, then the chosen countries, each wrapped
CountryItems(q) == << <<" ", "<br/>">> >> \o [i \in 1..Len(q) |-> Wrap(Countries[q[i]], i)]

EnhancedSections ==
  { <<>>,
    << <<"Turkey">> >>,
    << <<"<b>", "Japan", "</b>">>, <<"Lithuania", " ">> >> }

CurrencyItem(c, st) == [cur |-> c, status |-> st]

CurrencySections ==
  { <<>>,
    << CurrencyItem(<<"RUB">>, <<" ", "Prohibited">>),
       CurrencyItem(<<"BYN">>, <<"Prohibited">>) >>,
    << CurrencyItem(<<"<b>", "USD", "</b>">>, <<"Prohibited">>),
       CurrencyItem(<<"JPY">>, <<" ">>) >>,
    << CurrencyItem(<<"EUR">>, <<"Restricted">>),
       CurrencyItem(<<"JPY">>, <<"Allowed">>),
       CurrencyItem(<<"JPY">>, <<"Prohibited">>) >> }

TransferBody(restricted, enhanced, currency) ==
  [ NoBody EXCEPT !.present = TRUE, !.restricted = restricted,
                  !.enhanced = enhanced, !.currency = currency ]

\* the transfer pages the decision engine's rule sets are extracted from
DrawnTransferPages ==
  { Page(TransferBody(CountryItems(q), e, c)) :
      q \in AscendingSeqs(Len(Countries), MaxRestricted),
      e \in EnhancedSections, c \in CurrencySections }

\* every transfer rule set the extractor yields from them (the fallback too)
DrawnTransferRules == { parseTransferRules(pg).value : pg \in DrawnTransferPages }

DrawnTransferParams ==
  { TransferParams(Countries[i], Countries[j], c) :
      i \in 1..Len(Countries), j \in 1..Len(Countries), c \in Currencies }

\* activity texts, as characters
ProhibitedPool == << <<"B", "e", "t">>, <<"B", "e", "t", "s">>, <<"A", "r", "m", "s">> >>
RestrictedPool == << <<"T", "e", "a">>, <<"T", "e", "a", "s">>, <<"L", "o", "a", "n">> >>

\* an annex section: a blank item, an item too short to count, the entries
ActivityItems(pool, q) ==
  << <<" ">>, <<"<b>", "o", "k", "</b>">> >>
  \o [i \in 1..Len(q) |-> IF i % 2 = 1 THEN pool[q[i]]
                          ELSE <<" ", "<b>">> \o pool[q[i]] \o <<"</b>">>]

Row(n, country, status) == [cells |-> n, country |-> country, status |-> status]

CountryTableA ==
    << Row(2, <<"<b>", "Russia", "</b>">>, <<"N", "o">>),
       Row(2, <<"Turkey">>, <<"E", "D", "D", " ", "r", "e", "q", "u", "i", "r", "e", "d">>),
       Row(2, <<"Germany">>, <<"Y", "e", "s">>),
       Row(1, <<"Japan">>, <<"N", "o">>) >>

CountryTableB ==
    << Row(2, <<" ", "Lithuania">>, <<"E", "n", "h", "a", "n", "c", "e", "d">>),
       Row(2, <<"Japan">>, <<"N", "o", "t", " ", "a", "c", "c", "e", "p", "t", "e", "d">>),
       Row(2, <<"X">>, <<"P", "r", "o", "h", "i", "b", "i", "t", "e", "d">>),
       Row(2, <<"Turkey">>, <<"H", "i", "g", "h", " ", "r", "i", "s", "k">>) >>

CountryTables == { <<>>, CountryTableA, CountryTableB }

CountryBody(rows) == [NoBody EXCEPT !.present = TRUE, !.rows = rows]

AnnexBody(prohibited, restrictedActs) ==
  [ NoBody EXCEPT !.present = TRUE, !.prohibited = prohibited,
                  !.restrictedActs = restrictedActs ]

DrawnCompanyRules ==
  { parseCompanyRestrictions(
      Page(CountryBody(rows)),
      Page(AnnexBody(ActivityItems(ProhibitedPool, qp),
                     ActivityItems(RestrictedPool, qr)))).value :
      rows \in CountryTables,
      qp \in DistinctSeqs(Len(ProhibitedPool), MaxActivities),
      qr \in DistinctSeqs(Len(RestrictedPool), MaxActivities) }

\* the examples of the activity matching documentation
DocumentedExamples ==
  [ crypto |-> <<"c", "r", "y", "p", "t", "o", " ", "e", "x", "c", "h", "a", "n", "g", "e">>,
    betting |-> <<"b", "e", "t", "t", "i", "n", "g", " ", "p", "l", "a", "t", "f", "o", "r", "m">>,
    forex |-> <<"f", "o", "r", "e", "x", " ", "b", "r", "o", "k", "e", "r">> ]

ActivityTexts ==
  { <<>>,
    <<"B", "e", "t">>,
    <<"b", "e">>,
    <<"m", "y", " ", "B", "E", "T", "S">>,
    <<"t", "e", "a", "s">>,
    <<"t", "e">>,
    <<"s", "o", "f", "t", "w", "a", "r", "e">>,
    DocumentedExamples.crypto, DocumentedExamples.betting, DocumentedExamples.forex }

DrawnCompanyParams ==
  { CompanyParams(Countries[i], a) : i \in 1..Len(Countries), a \in ActivityTexts }

\* what the remote serves in the acquisition model
TransferPages ==
  { Page(TransferBody(CountryItems(<<4>>), << <<"Turkey">> >>, <<>>)),
    ViewPage(TransferBody(CountryItems(<<3, 4>>), <<>>,
                          << CurrencyItem(<<"USD">>, <<"Prohibited">>) >>)),
    Page(TransferBody(<< <<" ">> >>, << <<"Turkey">> >>, <<>>)),
    EmptyPage,
    MalformedPage }

CountryPages ==
  { Page(CountryBody(CountryTableA)), Page(CountryBody(<<>>)) }

ActivitiesPages ==
  { Page(AnnexBody(ActivityItems(ProhibitedPool, <<1>>),
                   ActivityItems(RestrictedPool, <<1, 2>>))),
    EmptyPage,
    MalformedPage }

TransferResponses ==
  { Response(k, NoPage) : k \in FailureKinds }
  \cup { Response("ok", pg) : pg \in TransferPages }

CompanyResponses(doc) ==
  { Response(k, NoPage) : k \in FailureKinds \cup {"notFound"} }
  \cup { Response("ok", pg) :
           pg \in IF doc = "country" THEN CountryPages ELSE ActivitiesPages }

CallTransferParams ==
  { TransferParams("Germany", "Lithuania", "EUR"),
    TransferParams("Russia", "Japan", "USD") }

CallCompanyParams ==
  { CompanyParams("Turkey", <<"t", "e", "a">>),
    CompanyParams("Germany", <<"B", "e", "t">>) }

\* ------------------------------------------------------------------------
\* The acquisition model: calls, fetches, caches and the clock
\* ------------------------------------------------------------------------
NoValidation == Validation(FALSE, "none", undefined, undefined, <<>>, Msg("", ""))
NotValidated == [identifier |-> <<>>, done |-> FALSE, result |-> NoValidation]
NotDecided == [op |-> "none", params |-> NoParams, result |-> NoResult]
NoRuleSet == [op |-> "none", rules |-> NoRules]

\* The two operations share no state but the configuration and the clock (each
\* reads and writes its own cache), and the application shows one tool at a
\* time: a behaviour is a session of the tool that was opened.
Init ==
  /\ activeTool \in {TRANSFER_CHECK, COMPANY_VALIDATION}
  /\ config \in [apiKey : {"", "secret"}, email : {"", "user@paysera.net"}]
  /\ now = 0
  /\ ticks = 0
  /\ transferRulesCache = <<>>
  /\ companyRestrictionsCache = <<>>
  /\ calls = [id \in CallIds |-> IdleCall]
  /\ settled = IdleCall
  /\ ruleSet = NoRuleSet
  /\ decided = NotDecided
  /\ validated = NotValidated

Next ==
  \/ \E params \in CallTransferParams : CheckTransferCall(params)
  \/ \E id \in CallIds, resp \in TransferResponses : TransferFetchReturns(id, resp)
  \/ \E params \in CallCompanyParams : ValidateCompanyCall(params)
  \/ \E id \in CallIds, doc \in {"country", "activities"} :
       \E resp \in CompanyResponses(doc) : CompanyFetchReturns(id, doc, resp)
  \/ \E d \in TickSteps : Tick(d)

Spec == Init /\ [][Next]_vars

\* The fetch call id issued for doc completes, with success or failure: the
\* promise of fetch(url) / response.json() settles.  As far as waiting is
\* concerned the remote fails, or serves a page (the first of the pages
\* above, which extracts).
FetchCompletes(id, doc) ==
  LET LiveResponses ==
        { Response("networkError", NoPage),
          Response("ok",
            CASE doc = "transfer" ->
                   Page(TransferBody(CountryItems(<<4>>), << <<"Turkey">> >>, <<>>))
              [] doc = "country" -> Page(CountryBody(CountryTableA))
              [] OTHER -> Page(AnnexBody(ActivityItems(ProhibitedPool, <<1>>),
                                         ActivityItems(RestrictedPool, <<1, 2>>)))) }
  IN IF doc = "transfer"
       THEN \E resp \in LiveResponses : TransferFetchReturns(id, resp)
       ELSE \E resp \in LiveResponses : CompanyFetchReturns(id, doc, resp)

NextLive ==
  \/ \E params \in CallTransferParams : CheckTransferCall(params)
  \/ \E params \in CallCompanyParams : ValidateCompanyCall(params)
  \/ \E id \in CallIds, doc \in Docs : FetchCompletes(id, doc)
  \/ \E d \in TickSteps : Tick(d)

\* the fetch call id issued for doc has not completed
Inflight(id, doc) == calls[id].fetches[doc].state = "inflight"

\* The acquisition where every fetch that was issued eventually completes:
\* weak fairness of FetchCompletes(id, doc), written out.  The completion is
\* enabled exactly while the fetch is in flight, and the steps that end the
\* flight are its steps, so WF_vars(FetchCompletes(id, doc)) is
\* []<>(~enabled) \/ []<>(a step of it).
SpecLive ==
  /\ Init /\ [][NextLive]_vars
  /\ \A id \in CallIds : \A doc \in Docs :
       \/ []<>(~Inflight(id, doc))
       \/ []<><<Inflight(id, doc) /\ ~Inflight(id, doc)'>>_vars

\* ------------------------------------------------------------------------
\* The decision engines alone: a rule set the extractor can yield is handed
\* in, and checkTransfer / validateCompany decide on it
\* ------------------------------------------------------------------------
InitDecide ==
  /\ activeTool = TRANSFER_CHECK
  /\ config = [apiKey |-> "secret", email |-> "user@paysera.net"]
  /\ now = 0
  /\ ticks = 0
  /\ transferRulesCache = <<>>
  /\ companyRestrictionsCache = <<>>
  /\ calls = [id \in CallIds |-> IdleCall]
  /\ settled = IdleCall
  /\ ruleSet \in { [op |-> "checkTransfer", rules |-> r] : r \in DrawnTransferRules }
                 \cup { [op |-> "validateCompany", rules |-> r] : r \in DrawnCompanyRules }
  /\ decided = NotDecided
  /\ validated = NotValidated

DecideTransfer(params) ==
  /\ ruleSet.op = "checkTransfer"
  /\ decided.op = "none"
  /\ decided' = [ op |-> "checkTransfer", params |-> params,
                  result |-> checkTransferWith(params, ruleSet.rules) ]
  /\ UNCHANGED << acquisitionVars, ruleSet, validated >>

DecideCompany(params) ==
  /\ ruleSet.op = "validateCompany"
  /\ decided.op = "none"
  /\ decided' = [ op |-> "validateCompany", params |-> params,
                  result |-> validateCompanyWith(params, ruleSet.rules) ]
  /\ UNCHANGED << acquisitionVars, ruleSet, validated >>

NextDecide ==
  \/ \E params \in DrawnTransferParams : DecideTransfer(params)
  \/ \E params \in DrawnCompanyParams : DecideCompany(params)

SpecDecide == InitDecide /\ [][NextDecide]_vars

\* ------------------------------------------------------------------------
\* validateIdentifier alone: an identifier is typed, and validated
\* ------------------------------------------------------------------------

\* the four letters of the bank, the two of the country, the two of the
\* location and the branch, each as typed
BankParts ==
  { <<"D", "E", "U", "T">>, <<"d", "e", "u", "t">>, <<"H", "A", "B", "A">>,
    <<"1", "2", "A", "B">>, <<"A", "1", "B", "C">>, <<"L", "T", "1", "2">> }
CountryParts ==
  { <<"D", "E">>, <<"L", "T">>, <<"Z", "Z">>, <<"u", "s">>, <<"1", "0">> }
LocationParts == { <<"F", "F">>, <<"2", "x">>, <<"F", " ", "F">>, <<"F", "-">> }
BranchParts ==
  { <<>>, <<"5", "0", "0">>, <<"X", "X", "X">>, <<"5">>,
    <<"0", "0", "0", "1", "1", "1", "0", "1", "0", "0", "1", "0">>,
    <<"3", "0", "0", "0", " ", "0", "0", "0", "0", " ", "0", "0", "0", "0", "0", "0">> }

DrawnIdentifiers ==
  { b \o c \o l \o r :
      b \in BankParts, c \in CountryParts, l \in LocationParts, r \in BranchParts }

InitIdent ==
  /\ activeTool = IBAN_SWIFT_VALIDATOR
  /\ config = [apiKey |-> "", email |-> ""]
  /\ now = 0
  /\ ticks = 0
  /\ transferRulesCache = <<>>
  /\ companyRestrictionsCache = <<>>
  /\ calls = [id \in CallIds |-> IdleCall]
  /\ settled = IdleCall
  /\ ruleSet = NoRuleSet
  /\ decided = NotDecided
  /\ validated \in { [identifier |-> i, done |-> FALSE, result |-> NoValidation] :
                       i \in DrawnIdentifiers }

\* validateIdentifier(identifier)
ValidateIdentifier ==
  /\ activeTool = IBAN_SWIFT_VALIDATOR
  /\ ~validated.done
  /\ validated' = [ validated EXCEPT !.done = TRUE,
                                     !.result = validateIdentifier(validated.identifier) ]
  /\ UNCHANGED << acquisitionVars, ruleSet, decided >>

NextIdent == ValidateIdentifier

SpecIdent == InitIdent /\ [][NextIdent]_vars

\* ------------------------------------------------------------------------
\* The validator form: an identifier is typed, and the form is submitted
\* ------------------------------------------------------------------------
\* what is typed: white space or none, a country code, two check digits and
\* an account number; nothing; a SWIFT code
TypedIdentifiers ==
  LET LeadParts == { <<>>, <<" ">>, <<"\t">> }
      CodeParts == { <<"L", "T">>, <<"l", "t">>, <<"L", " ", "T">>,
                     <<"Z", "Z">>, <<"D", "E">> }
      CheckParts == { <<"1", "2">>, <<"8", "9">>, <<"6", "2">>, <<"3", "5">> }
      AccountParts ==
        { <<"1", "0", "0", "0", "0", "1", "1", "1", "0", "1", "0", "0", "1", "0", "0", "0">>,
          <<"3", "7", "0", "4", "0", "0", "4", "4", "0", "5", "3", "2", "0", "1", "3", "0", "0", "0">>,
          <<"1", "0", "0", "0", "0", "1", "1", "1", "0", "1", "0", "0", "1", "0", "0">>,
          <<"1", "0", "0", "0", " ", "0", "1", "1", "1", " ", "0", "1", "0", "0", " ", "1", "0", "0", "0">> }
  IN { l \o c \o k \o a :
         l \in LeadParts, c \in CodeParts, k \in CheckParts, a \in AccountParts }
     \cup { <<>>, <<" ">>, <<"D", "E", "U", "T", "D", "E", "F", "F">> }

NotSubmitted ==
  [ identifier |-> <<>>, done |-> FALSE, error |-> undefined,
    result |-> NoValidation ]

InitSubmit ==
  /\ activeTool = IBAN_SWIFT_VALIDATOR
  /\ config = [apiKey |-> "", email |-> ""]
  /\ now = 0
  /\ ticks = 0
  /\ transferRulesCache = <<>>
  /\ companyRestrictionsCache = <<>>
  /\ calls = [id \in CallIds |-> IdleCall]
  /\ settled = IdleCall
  /\ ruleSet = NoRuleSet
  /\ decided = NotDecided
  /\ validated \in { [NotSubmitted EXCEPT !.identifier = i] : i \in TypedIdentifiers }

\* the form is submitted: handleSubmit runs to its end
HandleSubmit ==
  /\ activeTool = IBAN_SWIFT_VALIDATOR
  /\ ~validated.done
  /\ validated' = [ validated EXCEPT
                      !.done = TRUE,
                      !.error = handleSubmit(validated.identifier).error,
                      !.result = handleSubmit(validated.identifier).result ]
  /\ UNCHANGED << acquisitionVars, ruleSet, decided >>

SpecSubmit == InitSubmit /\ [][HandleSubmit]_vars

\* ------------------------------------------------------------------------
\* Properties of validateIdentifier (under SpecIdent)
\* ------------------------------------------------------------------------

\* the identifier, stripped of whitespace and in upper case, has the shape of
\* a SWIFT/BIC code: six letters, two letters or digits, and three more or none
CleanedIsSwift ==
  LET clean == toUpperCase(removeWhitespace(validated.identifier))
  IN /\ Len(clean) \in {8, 11}
     /\ \A i \in 1..6 : \E k \in 1..26 : UpperChars[k] = clean[i]
     /\ \A i \in 7..Len(clean) :
          \/ \E k \in 1..26 : UpperChars[k] = clean[i]
          \/ \E k \in 1..10 : Digits[k] = clean[i]

\* C13: validateIdentifier reports every string that, cleaned, matches the
\* SWIFT/BIC pattern as isValid = true with type SWIFT, also when the country
\* code at positions 5-6 is not in the country table.
C13_SwiftPatternIsValidSwift ==
  (validated.done /\ CleanedIsSwift)
  => /\ validated.result.isValid
     /\ validated.result.type = "SWIFT"

\* ------------------------------------------------------------------------
\* Properties of the decision engines (under SpecDecide)
\* ------------------------------------------------------------------------
TransferDecided == decided.op = "checkTransfer"
CompanyDecided == decided.op = "validateCompany"

\* c is an element of the rule set's restrictedCountries
InRestrictedCountries(c) ==
  \E i \in DOMAIN ruleSet.rules.restrictedCountries :
    ruleSet.rules.restrictedCountries[i] = c

\* currencyRestrictions[x] = "Prohibited" in the rule set
CurrencyProhibited(x) ==
  /\ x \in DOMAIN ruleSet.rules.currencyRestrictions
  /\ ruleSet.rules.currencyRestrictions[x] = "Prohibited"

\* C1: for every transfer rule set, a transfer whose sender nationality or
\* whose recipient country is in restrictedCountries is not possible, whatever
\* the other country and the currency are.
C1_RestrictedCountryNotPossible ==
  ( /\ TransferDecided
    /\ \/ InRestrictedCountries(decided.params.senderNationality)
       \/ InRestrictedCountries(decided.params.recipientCountry) )
  => decided.result.isPossible = FALSE

\* a transfer to a restricted country that is not the first of the list, from
\* a sender that is not restricted, in a currency that is not prohibited
C1_Witness ==
  /\ TransferDecided
  /\ Len(ruleSet.rules.restrictedCountries) >= 2
  /\ ruleSet.rules.restrictedCountries[2] = decided.params.recipientCountry
  /\ ~InRestrictedCountries(decided.params.senderNationality)
  /\ ~CurrencyProhibited(decided.params.currency)
  /\ decided.result.isPossible = FALSE

\* C2: for every transfer rule set, a transfer in a currency whose entry in
\* currencyRestrictions is "Prohibited", between two countries that are both
\* outside restrictedCountries, is not possible.
C2_ProhibitedCurrencyNotPossible ==
  ( /\ TransferDecided
    /\ CurrencyProhibited(decided.params.currency)
    /\ ~InRestrictedCountries(decided.params.senderNationality)
    /\ ~InRestrictedCountries(decided.params.recipientCountry) )
  => decided.result.isPossible = FALSE

\* a prohibited currency of a page that was fetched, between two countries
\* that are not restricted, refused
C2_Witness ==
  /\ TransferDecided
  /\ ruleSet.rules.pageSource = TransferPageUrl
  /\ CurrencyProhibited(decided.params.currency)
  /\ ~InRestrictedCountries(decided.params.senderNationality)
  /\ ~InRestrictedCountries(decided.params.recipientCountry)
  /\ decided.result.isPossible = FALSE

\* C6: for every company rule set, a company whose country is in
\* restrictedCountries is refused with an empty conditions list, for every
\* activity text.
C6_RestrictedCompanyCountryRefused ==
  (CompanyDecided /\ InRestrictedCountries(decided.params.companyCountry))
  => /\ decided.result.isPossible = FALSE
     /\ decided.result.conditions = <<>>

\* a company of a restricted country that is not the first of the list,
\* with an activity that matches no prohibited entry, refused
C6_Witness ==
  /\ CompanyDecided
  /\ Len(ruleSet.rules.restrictedCountries) >= 2
  /\ ruleSet.rules.restrictedCountries[1] # decided.params.companyCountry
  /\ InRestrictedCountries(decided.params.companyCountry)
  /\ decided.params.companyActivity = <<"s", "o", "f", "t", "w", "a", "r", "e">>
  /\ decided.result.isPossible = FALSE
  /\ decided.result.conditions = <<>>

\* C7: for every company rule set and every country, an activity text that
\* is exactly equal to an entry of prohibitedActivities is refused.
C7_ExactProhibitedActivityRefused ==
  ( /\ CompanyDecided
    /\ \E i \in DOMAIN ruleSet.rules.prohibitedActivities :
         ruleSet.rules.prohibitedActivities[i] = decided.params.companyActivity )
  => decided.result.isPossible = FALSE

\* an activity written with a capital, equal to a prohibited entry, for a
\* company of a country that is not restricted, refused for the activity
C7_Witness ==
  /\ CompanyDecided
  /\ ~InRestrictedCountries(decided.params.companyCountry)
  /\ decided.params.companyActivity = <<"B", "e", "t">>
  /\ \E i \in DOMAIN ruleSet.rules.prohibitedActivities :
       ruleSet.rules.prohibitedActivities[i] = decided.params.companyActivity
  /\ decided.result.isPossible = FALSE
  /\ decided.result.activityStatus = ActivityProhibitedStatus

\* C8: in every result of checkTransfer, system and fee are present (neither
\* undefined nor empty) exactly when isPossible is true.
C8_SystemAndFeeIffPossible ==
  TransferDecided
  => /\ Truthy(decided.result.system) <=> decided.result.isPossible
     /\ Truthy(decided.result.fee) <=> decided.result.isPossible

\* a refusal for the currency, without system and fee
C8_Witness ==
  /\ TransferDecided
  /\ CurrencyProhibited(decided.params.currency)
  /\ ~InRestrictedCountries(decided.params.senderNationality)
  /\ ~InRestrictedCountries(decided.params.recipientCountry)
  /\ decided.result.isPossible = FALSE
  /\ decided.result.system = undefined
  /\ decided.result.fee = undefined

\* C9: in every result of validateCompany, isPossible = false implies that
\* conditions is empty, also when the country requires enhanced due diligence
\* and the activity is prohibited.
C9_RefusedHasNoConditions ==
  (CompanyDecided /\ decided.result.isPossible = FALSE)
  => decided.result.conditions = <<>>

\* a country under enhanced due diligence with a prohibited activity
C9_Witness ==
  /\ CompanyDecided
  /\ \E i \in DOMAIN ruleSet.rules.enhancedDueDiligence :
       ruleSet.rules.enhancedDueDiligence[i] = decided.params.companyCountry
  /\ decided.result.countryStatus = EddStatus
  /\ decided.result.activityStatus = ActivityProhibitedStatus
  /\ decided.result.isPossible = FALSE
  /\ decided.result.conditions = <<>>

\* the system and fee the precedence Local > SEPA > Currency One > SWIFT gives
\* for the four flags
SystemByPrecedence(isLithuania, isEUR, isEU, isCurrencyOne) ==
  IF isLithuania /\ isEUR
    THEN [system |-> "Local Transfer (Lithuania)", fee |-> "0 EUR"]
  ELSE IF isEUR /\ isEU
    THEN [system |-> "SEPA", fee |-> "0 EUR"]
  ELSE IF isCurrencyOne
    THEN [system |-> "Currency One", fee |-> "1 EUR"]
  ELSE [system |-> "SWIFT", fee |-> "15-50 EUR (depending on currency and amount)"]

\* C10: for an accepted transfer, system and fee are the value, at (recipient
\* is Lithuania, currency is EUR, recipient is in the EU/EEA list, currency is
\* in the Currency One set), of the function given by the precedence
\* Local Transfer > SEPA > Currency One > SWIFT: they depend on nothing else,
\* neither on the sender nor on the rule set's systems.
C10_SystemByPrecedence ==
  (TransferDecided /\ decided.result.isPossible)
  => LET chosen == SystemByPrecedence(
                     decided.params.recipientCountry = "Lithuania",
                     decided.params.currency = "EUR",
                     \E i \in DOMAIN euCountries :
                       euCountries[i] = decided.params.recipientCountry,
                     \E i \in DOMAIN currencyOneCurrencies :
                       currencyOneCurrencies[i] = decided.params.currency)
     IN /\ decided.result.system = chosen.system
        /\ decided.result.fee = chosen.fee

\* a transfer in EUR to Lithuania, which is also in the EU/EEA list, from a
\* sender that is not Lithuania, decided on a rule set that was extracted
C10_Witness ==
  /\ TransferDecided
  /\ decided.result.isPossible
  /\ decided.params.recipientCountry = "Lithuania"
  /\ decided.params.currency = "EUR"
  /\ decided.params.senderNationality = "Japan"
  /\ ruleSet.rules.systems = ParsedSystems
  /\ decided.result.system = "Local Transfer (Lithuania)"
  /\ decided.result.fee = "0 EUR"

\* ------------------------------------------------------------------------
\* Properties of the acquisition (under Spec)
\* ------------------------------------------------------------------------
Settled == settled.op # "none"

FallbackFor(op) ==
  IF op = "checkTransfer" THEN getFallbackTransferRules
                          ELSE getFallbackCompanyRestrictions

\* the documents a call of op asks for
DocsOf(op) == IF op = "checkTransfer" THEN {"transfer"} ELSE {"country", "activities"}

\* The acquisition of a call that settled failed: it ran (the cache did not
\* serve the call) and the credentials were missing, or a request failed, or
\* a page that came was malformed, or no page that came had a body.
AcquisitionFailed(call) ==
  /\ call.source # "cache"
  /\ \/ credentialsMissing
     \/ \E d \in DocsOf(call.op) : call.fetches[d].state = "rejected"
     \/ \E d \in DocsOf(call.op) :
          /\ call.fetches[d].state = "resolved"
          /\ ~call.fetches[d].page.wellFormed
     \/ \A d \in DocsOf(call.op) :
          /\ call.fetches[d].state = "resolved"
          /\ ~call.fetches[d].page.storage.present
          /\ ~call.fetches[d].page.view.present

ReadFresh(call) ==
  /\ call.cached.present
  /\ call.cached.timestamp <= call.readAt
  /\ call.readAt < call.cached.timestamp + 3600000

ReadStale(call) ==
  /\ call.cached.present
  /\ call.readAt >= call.cached.timestamp + 3600000

\* C4: a call that reads, at time t, an entry stored at time T returns the
\* cached rule set, without a request, when T <= t < T + 3600000, and acquires
\* again when t >= T + 3600000: the cache does not serve it.
C4_CacheTimeToLive ==
  /\ Settled /\ ReadFresh(settled)
       => /\ settled.source = "cache"
          /\ settled.rules = settled.cached.data
          /\ \A d \in Docs : settled.fetches[d].state = "none"
  /\ Settled /\ ReadStale(settled)
       => /\ settled.source # "cache"
          /\ \/ credentialsMissing
             \/ \E d \in Docs : settled.fetches[d].state # "none"
  /\ \A id \in CallIds : calls[id].pc = "fetching" => ~ReadFresh(calls[id])

\* a call that read, exactly 3600000 ms after it was stored, an entry, and
\* settled on what its own request brought
C4_Witness ==
  /\ Settled
  /\ settled.cached.present
  /\ settled.readAt = settled.cached.timestamp + 3600000
  /\ settled.source = "fetch"
  /\ \E d \in Docs : settled.fetches[d].state = "resolved"

\* C5: the cache never holds the hardcoded fallback rule set (an entry is
\* written only when the fetch and the extraction both succeeded).
C5_CacheNeverHoldsFallback ==
  /\ TransferCacheKey \in DOMAIN transferRulesCache
       => transferRulesCache[TransferCacheKey].data # getFallbackTransferRules
  /\ CompanyCacheKey \in DOMAIN companyRestrictionsCache
       => companyRestrictionsCache[CompanyCacheKey].data
            # getFallbackCompanyRestrictions

\* ------------------------------------------------------------------------
\* Further properties of the transfer decision (under SpecDecide)
\* ------------------------------------------------------------------------
AustriaToLithuaniaInEUR ==
  /\ TransferDecided
  /\ ruleSet.rules = getFallbackTransferRules
  /\ decided.params = TransferParams("Austria", "Lithuania", "EUR")

\* C11: with the fallback rule set, checkTransfer for sender "Austria",
\* recipient "Lithuania", currency "EUR" returns isPossible = true with system
\* "Local Transfer" and fee "0 EUR".
C11_AustriaToLithuaniaIsLocalTransfer ==
  AustriaToLithuaniaInEUR
  => /\ decided.result.isPossible
     /\ decided.result.system = "Local Transfer"
     /\ decided.result.fee = "0 EUR"

C17_BothRestrictedRejectsOnSender ==
  ( /\ TransferDecided
    /\ InRestrictedCountries(decided.params.senderNationality)
    /\ InRestrictedCountries(decided.params.recipientCountry) )
  => /\ decided.result.isPossible = FALSE
     /\ decided.result.restrictions[1]
          = Msg("Transfers FROM are PROHIBITED", decided.params.senderNationality)
     /\ \A i \in DOMAIN decided.result.restrictions :
          decided.result.restrictions[i][1] # "Transfers TO are PROHIBITED"

\* two different restricted countries, the recipient first in the list
C17_Witness ==
  /\ TransferDecided
  /\ Len(ruleSet.rules.restrictedCountries) >= 2
  /\ ruleSet.rules.restrictedCountries[1] = decided.params.recipientCountry
  /\ ruleSet.rules.restrictedCountries[2] = decided.params.senderNationality
  /\ decided.params.senderNationality # decided.params.recipientCountry
  /\ decided.result.isPossible = FALSE
  /\ decided.result.restrictions[1]
       = Msg("Transfers FROM are PROHIBITED", decided.params.senderNationality)

\* ------------------------------------------------------------------------
\* Further properties of the acquisition (under Spec)
\* ------------------------------------------------------------------------
CompanySettled == settled.op = "validateCompany"

\* a fetch of the call failed
SomeFetchFailed(call) ==
  \E d \in DocsOf(call.op) : call.fetches[d].state = "rejected"

\* C14 (state part): a call of getCompanyRestrictions that is waiting has
\* started both fetches; a rule set that was extracted had both documents;
\* after a failed fetch the rule set is the complete fallback.
C14_BothOrFallback ==
  /\ \A id \in CallIds :
       (calls[id].op = "validateCompany" /\ calls[id].pc = "fetching")
       => \A d \in {"country", "activities"} : calls[id].fetches[d].attempts = 1
  /\ (CompanySettled /\ settled.source = "fetch")
       => \A d \in {"country", "activities"} : settled.fetches[d].state = "resolved"
  /\ (CompanySettled /\ SomeFetchFailed(settled))
       => /\ settled.source = "fallback"
          /\ settled.rules = getFallbackCompanyRestrictions

\* C14: getCompanyRestrictions starts both fetches before it awaits either
\* and extracts only after both succeeded; if either fetch fails the call
\* returns the complete fallback rule set, never one document merged with
\* fallback data, and the step in which it settles does not write the cache.
C14_NoPartialMerge ==
  /\ []C14_BothOrFallback
  /\ [][ (settled'.op = "validateCompany" /\ SomeFetchFailed(settled'))
         => companyRestrictionsCache' = companyRestrictionsCache ]_vars

\* the country page came, with a table that extracts, and the activities
\* fetch failed: the fallback, and nothing in the cache
C14_Witness ==
  /\ CompanySettled
  /\ settled.fetches["country"].state = "resolved"
  /\ settled.fetches["country"].page.storage.present
  /\ settled.fetches["country"].page.storage.rows # <<>>
  /\ settled.fetches["activities"].state = "rejected"
  /\ settled.rules = getFallbackCompanyRestrictions
  /\ companyRestrictionsCache = <<>>

\* C15: when either credential is absent, every acquisition call, at any
\* point of any sequence of calls, fails before a request is issued and
\* returns the fallback rule set; the cache is never populated.
C15_NoCredentialsOnlyFallback ==
  (config.apiKey = "" \/ config.email = "")
  => /\ transferRulesCache = <<>>
     /\ companyRestrictionsCache = <<>>
     /\ \A id \in CallIds : calls[id].pc = "idle"
     /\ Settled
          => /\ settled.pc = "done"
             /\ settled.source = "fallback"
             /\ settled.rules = FallbackFor(settled.op)
             /\ \A d \in Docs : /\ settled.fetches[d].requests = 0
                                /\ settled.fetches[d].state # "inflight"

\* the API key is there and the email is not: a call made after the clock
\* advanced twice settles on the fallback
C15_Witness ==
  /\ config.apiKey = "secret"
  /\ config.email = ""
  /\ ticks = 2
  /\ Settled
  /\ settled.readAt = now
  /\ settled.source = "fallback"
  /\ settled.rules = FallbackFor(settled.op)

\* C16: every result of checkTransfer and validateCompany carries an
\* intranetPageSource that is a defined URL, whether the rule set came from a
\* fetch, from the cache or from the hardcoded fallback.
C16_ResultCarriesPageSource ==
  Settled
  => /\ settled.result.intranetPageSource # undefined
     /\ settled.result.intranetPageSource # ""

\* the calls of op that wait for their fetches
Fetching(op) == { id \in CallIds : calls[id].op = op /\ calls[id].pc = "fetching" }

\* a call of the tool that is open would not be served by the cache
WouldMiss ==
  LET cache == IF activeTool = TRANSFER_CHECK THEN transferRulesCache
                                              ELSE companyRestrictionsCache
      key == IF activeTool = TRANSFER_CHECK THEN TransferCacheKey ELSE CompanyCacheKey
  IN key \in DOMAIN cache => now - cache[key].timestamp >= 3600000

OpenOp == IF activeTool = TRANSFER_CHECK THEN "checkTransfer" ELSE "validateCompany"

\* C18: at most one fetch in flight per key is not enforced: while a call is
\* waiting for its fetch, a second call for the same key that misses the cache
\* is not held back and issues a fetch of its own.
C18_SecondCallAlsoFetches ==
  ( /\ config.apiKey # "" /\ config.email # ""
    /\ WouldMiss
    /\ Fetching(OpenOp) # {}
    /\ \E id \in CallIds : calls[id].pc = "idle" )
  => ENABLED ( /\ \/ \E params \in CallTransferParams : CheckTransferCall(params)
                  \/ \E params \in CallCompanyParams : ValidateCompanyCall(params)
               /\ \E id \in CallIds :
                    /\ calls[id].pc = "idle"
                    /\ calls'[id].pc = "fetching"
                    /\ \A d \in DocsOf(OpenOp) : calls'[id].fetches[d].requests = 1 )

\* two calls of getCompanyRestrictions, each with its two fetches in flight
C18_Witness ==
  /\ Cardinality(Fetching("validateCompany")) = 2
  /\ \A id \in Fetching("validateCompany") :
       /\ ~calls[id].cached.present
       /\ \A d \in {"country", "activities"} :
            /\ calls[id].fetches[d].state = "inflight"
            /\ calls[id].fetches[d].requests = 1

CacheOf(op) ==
  IF op = "checkTransfer" THEN transferRulesCache ELSE companyRestrictionsCache

KeyOf(op) == IF op = "checkTransfer" THEN TransferCacheKey ELSE CompanyCacheKey

\* C19: when successful acquisitions for one key overlap, the entry after
\* each completes is the rule set of the one that completed, with the time
\* of its completion: the acquisition that completes last wins, also over
\* an entry that was written after it read the cache.
C19_LastCompletionWins ==
  (Settled /\ settled.source = "fetch")
  => /\ KeyOf(settled.op) \in DOMAIN CacheOf(settled.op)
     /\ CacheOf(settled.op)[KeyOf(settled.op)]
          = [data |-> settled.rules, timestamp |-> now]

\* A call read an empty cache; while it waited another acquisition wrote an
\* entry with another rule set (a third call, still waiting, read it); the
\* first call completes and its rule set replaces that entry.
C19_Witness ==
  /\ Settled
  /\ settled.source = "fetch"
  /\ ~settled.cached.present
  /\ \E id \in CallIds :
       /\ calls[id].op = settled.op
       /\ calls[id].pc = "fetching"
       /\ calls[id].cached.present
       /\ calls[id].cached.data # settled.rules
       /\ calls[id].cached.timestamp >= settled.readAt
  /\ CacheOf(settled.op)[KeyOf(settled.op)].data = settled.rules
  /\ CacheOf(settled.op)[KeyOf(settled.op)].timestamp = now

\* the attempts and requests a call made for each document are n for its own
\* documents, with r requests each, and none for the others
Attempted(call, n, r) ==
  \A d \in Docs :
    IF d \in DocsOf(call.op)
      THEN call.fetches[d].attempts = n /\ call.fetches[d].requests = r
      ELSE call.fetches[d].attempts = 0 /\ call.fetches[d].requests = 0

\* C20: an acquisition call issues no fetch on a cache hit, and on a cache
\* miss makes exactly one fetch attempt per document it needs (one for the
\* transfer rules, two for the company rules), with at most one request
\* each; a failed attempt is not retried.
C20_OneAttemptPerDocument ==
  /\ (Settled /\ settled.source = "cache")
       => \A d \in Docs : /\ settled.fetches[d].attempts = 0
                          /\ settled.fetches[d].requests = 0
  /\ (Settled /\ settled.source # "cache")
       => Attempted(settled, 1, IF config.apiKey = "" \/ config.email = "" THEN 0 ELSE 1)
  /\ \A id \in CallIds : calls[id].pc = "fetching" => Attempted(calls[id], 1, 1)

\* validateCompany whose activities fetch failed while the country fetch was
\* in flight: one request for each, and the call settled
C20_Witness ==
  /\ CompanySettled
  /\ settled.source = "fallback"
  /\ settled.fetches["activities"].state = "rejected"
  /\ settled.fetches["country"].state = "inflight"
  /\ Attempted(settled, 1, 1)

\* ------------------------------------------------------------------------
\* Further properties of the decision engines (under SpecDecide)
\* ------------------------------------------------------------------------

\* c is an element of the rule set's enhancedMonitoring list
InEnhancedMonitoring(c) ==
  \E i \in DOMAIN ruleSet.rules.enhancedMonitoring :
    ruleSet.rules.enhancedMonitoring[i] = c

\* C21: enhanced monitoring never rejects a transfer: when neither country is
\* restricted and the currency is not prohibited, the transfer is possible,
\* and requiresEnhancedMonitoring is true exactly when the sender or the
\* recipient is in the enhanced-monitoring list.
C21_MonitoringNeverRejects ==
  ( /\ TransferDecided
    /\ ~InRestrictedCountries(decided.params.senderNationality)
    /\ ~InRestrictedCountries(decided.params.recipientCountry)
    /\ ~CurrencyProhibited(decided.params.currency) )
  => /\ decided.result.isPossible = TRUE
     /\ decided.result.requiresEnhancedMonitoring
          = ( \/ InEnhancedMonitoring(decided.params.senderNationality)
              \/ InEnhancedMonitoring(decided.params.recipientCountry) )

\* only the recipient is monitored, and is not the first of the list: the
\* transfer is possible and flagged
C21_Witness ==
  /\ TransferDecided
  /\ Len(ruleSet.rules.enhancedMonitoring) >= 2
  /\ ruleSet.rules.enhancedMonitoring[2] = decided.params.recipientCountry
  /\ ~InEnhancedMonitoring(decided.params.senderNationality)
  /\ decided.result.isPossible = TRUE
  /\ decided.result.requiresEnhancedMonitoring = TRUE

\* c is an element of the rule set's enhancedDueDiligence list
InEnhancedDueDiligence(c) ==
  \E i \in DOMAIN ruleSet.rules.enhancedDueDiligence :
    ruleSet.rules.enhancedDueDiligence[i] = c

\* c is one of the EU/EEA member states
InEuEea(c) == \E i \in DOMAIN euCountries : euCountries[i] = c

\* C22: for a company country outside restrictedCountries the country status
\* follows the precedence: enhanced due diligence (also for an EU/EEA
\* member), else EU/EEA standard processing, else case-by-case review; the
\* status is exactly one of the three.
C22_CountryClassifiedByPrecedence ==
  (CompanyDecided /\ ~InRestrictedCountries(decided.params.companyCountry))
  => /\ decided.result.countryStatus \in {EddStatus, EuStatus, CaseByCaseStatus}
     /\ decided.result.countryStatus =
          IF InEnhancedDueDiligence(decided.params.companyCountry) THEN EddStatus
          ELSE IF InEuEea(decided.params.companyCountry) THEN EuStatus
          ELSE CaseByCaseStatus
     /\ EddStatus # EuStatus /\ EuStatus # CaseByCaseStatus
     /\ EddStatus # CaseByCaseStatus

\* an EU/EEA member that the table marks for enhanced due diligence
C22_Witness ==
  /\ CompanyDecided
  /\ ~InRestrictedCountries(decided.params.companyCountry)
  /\ InEnhancedDueDiligence(decided.params.companyCountry)
  /\ InEuEea(decided.params.companyCountry)
  /\ decided.result.isPossible = TRUE
  /\ decided.result.countryStatus = EddStatus

\* the conditions the loop over restrictedActivities writes
RestrictedActivityConditions ==
  << "Valid business licenses MUST be provided",
     "Enhanced compliance monitoring will be applied",
     "Additional documentation may be requested during review" >>

\* the number of restrictedActivities entries that match the activity text
RestrictedMatchCount ==
  Cardinality({ i \in DOMAIN ruleSet.rules.restrictedActivities :
                  matchesActivity(toLowerCase(decided.params.companyActivity),
                                  ruleSet.rules.restrictedActivities[i]) })

\* the number of conditions of the result that are conditions of a
\* restricted activity
ActivityConditionCount ==
  Cardinality({ j \in DOMAIN decided.result.conditions :
                  \E n \in DOMAIN RestrictedActivityConditions :
                    decided.result.conditions[j] = RestrictedActivityConditions[n] })

\* the number of the other conditions of the result
OtherConditionCount == Len(decided.result.conditions) - ActivityConditionCount

\* activityStatus is the additional-review classification exactly when an
\* entry matched
ActivityStatusByMatch ==
  decided.result.activityStatus =
    IF RestrictedMatchCount > 0 THEN ActivityRestrictedStatus
                                ELSE ActivityAcceptedStatus

\* C23 (as stated): each restrictedActivities entry that matches appends
\* exactly two standard conditions, so k matching entries append 2k
\* conditions, and activityStatus is the additional-review classification.
C23_TwoConditionsPerMatch ==
  (CompanyDecided /\ decided.result.isPossible)
  => /\ ActivityConditionCount = 2 * RestrictedMatchCount
     /\ ActivityStatusByMatch

\* C23 (amended): each restrictedActivities entry that matches appends
\* exactly three standard conditions (valid licenses; enhanced monitoring;
\* additional documentation), in this order, so k matching entries append 3k
\* conditions with no deduplication, before any other condition, and
\* activityStatus is the additional-review classification.
C23_ThreeConditionsPerMatch ==
  (CompanyDecided /\ decided.result.isPossible)
  => /\ ActivityConditionCount = 3 * RestrictedMatchCount
     /\ \A j \in 1..(3 * RestrictedMatchCount) :
          decided.result.conditions[j] = RestrictedActivityConditions[((j - 1) % 3) + 1]
     /\ ActivityStatusByMatch

\* two entries match the text: six conditions
C23_Witness ==
  /\ CompanyDecided
  /\ decided.result.isPossible
  /\ RestrictedMatchCount = 2
  /\ ActivityConditionCount = 6
  /\ decided.result.activityStatus = ActivityRestrictedStatus

\* C24: when validateCompany accepts a company whose country requires
\* enhanced due diligence, exactly three standard EDD conditions are appended,
\* whether or not a restricted activity matched, so conditions is not empty.
C24_ThreeEddConditions ==
  ( /\ CompanyDecided
    /\ decided.result.isPossible
    /\ InEnhancedDueDiligence(decided.params.companyCountry) )
  => /\ OtherConditionCount = 3
     /\ decided.result.conditions # <<>>

\* the prohibitedActivities entries that match the activity text in one of
\* the two directions, both lower-cased
ProhibitedHits ==
  LET text == toLowerCase(decided.params.companyActivity)
      list == ruleSet.rules.prohibitedActivities
  IN { i \in DOMAIN list :
         \/ includes(text, toLowerCase(list[i]))
         \/ includes(toLowerCase(list[i]), text) }

FirstProhibitedHit == CHOOSE i \in ProhibitedHits : \A j \in ProhibitedHits : i <= j

\* the entries the rejection names
NamedProhibited ==
  { decided.result.restrictions[j][2] :
      j \in { n \in DOMAIN decided.result.restrictions :
                decided.result.restrictions[n][1] = "Business activity is NOT ACCEPTED" } }

\* a restriction of the result comes from the loop over restrictedActivities
MentionsRestrictedActivity ==
  \E j \in DOMAIN decided.result.restrictions :
    decided.result.restrictions[j][1]
      = "Activity is RESTRICTED (requires additional compliance review)"

\* C25: for a country that is not restricted, the first prohibitedActivities
\* entry in list order that contains the lower-cased activity text or is
\* contained in it (entry lower-cased too) causes rejection; the rejection
\* names that entry and no other, the country classification is reported,
\* restrictedActivities are not consulted; without such an entry the company
\* is accepted; an empty activity text is rejected whenever
\* prohibitedActivities is not empty.
C25_FirstProhibitedMatchRejects ==
  (CompanyDecided /\ ~InRestrictedCountries(decided.params.companyCountry))
  => /\ ProhibitedHits # {}
          => /\ decided.result.isPossible = FALSE
             /\ decided.result.activityStatus = ActivityProhibitedStatus
             /\ NamedProhibited
                  = { ruleSet.rules.prohibitedActivities[FirstProhibitedHit] }
             /\ decided.result.countryStatus \in {EddStatus, EuStatus, CaseByCaseStatus}
             /\ decided.result.countryStatus = EddStatus
                  <=> InEnhancedDueDiligence(decided.params.companyCountry)
             /\ ~MentionsRestrictedActivity
             /\ decided.result.conditions = <<>>
     /\ ProhibitedHits = {} => decided.result.isPossible = TRUE
     /\ ( /\ decided.params.companyActivity = <<>>
          /\ ruleSet.rules.prohibitedActivities # <<>> )
          => decided.result.isPossible = FALSE

\* the text is contained in two entries, which differ, and in no other
\* direction; the first of them is named, for a country under enhanced due
\* diligence
C25_Witness ==
  /\ CompanyDecided
  /\ ~InRestrictedCountries(decided.params.companyCountry)
  /\ InEnhancedDueDiligence(decided.params.companyCountry)
  /\ decided.params.companyActivity = <<"b", "e">>
  /\ Cardinality(ProhibitedHits) = 2
  /\ NamedProhibited = { ruleSet.rules.prohibitedActivities[FirstProhibitedHit] }
  /\ \E i \in ProhibitedHits :
       ruleSet.rules.prohibitedActivities[i]
         # ruleSet.rules.prohibitedActivities[FirstProhibitedHit]
  /\ decided.result.isPossible = FALSE
  /\ decided.result.countryStatus = EddStatus

\* the entries the restrictions of an accepted company name as restricted
NamedRestricted ==
  { decided.result.restrictions[j][2] :
      j \in { n \in DOMAIN decided.result.restrictions :
                decided.result.restrictions[n][1]
                  = "Activity is RESTRICTED (requires additional compliance review)" } }

\* C26: with the fallback company rule set, "crypto exchange" matches the
\* prohibited entry for cryptocurrency exchanges and "betting platform" the
\* prohibited entry "Gambling and betting" (both rejected), and "forex broker"
\* matches the restricted entry "Forex trading" (accepted with conditions).
C26_DocumentedExamplesMatch ==
  ( /\ CompanyDecided
    /\ ruleSet.rules = getFallbackCompanyRestrictions
    /\ ~InRestrictedCountries(decided.params.companyCountry) )
  => /\ decided.params.companyActivity = DocumentedExamples.crypto
          => /\ decided.result.isPossible = FALSE
             /\ NamedProhibited = { FallbackProhibitedActivities[2] }
     /\ decided.params.companyActivity = DocumentedExamples.betting
          => /\ decided.result.isPossible = FALSE
             /\ NamedProhibited = { FallbackProhibitedActivities[1] }
     /\ decided.params.companyActivity = DocumentedExamples.forex
          => /\ decided.result.isPossible = TRUE
             /\ NamedRestricted = { FallbackRestrictedActivities[2] }
             /\ decided.result.conditions # <<>>

\* ------------------------------------------------------------------------
\* Extraction and failure, seen from the acquisition (under Spec)
\* ------------------------------------------------------------------------

\* a rule set of the operation keeps the lists the decision relies on
FailsClosed(op, rules) ==
  IF op = "checkTransfer"
    THEN rules.restrictedCountries # <<>>
    ELSE rules.restrictedCountries # <<>> \/ rules.prohibitedActivities # <<>>

\* what the passes over the fetched documents of a settled call yield
ParsedRestrictedOfTransfer ==
  extractListItems(bodyOf(settled.fetches["transfer"].page).restricted)

ParsedRestrictedOfCompany ==
  extractCountryRows(bodyOf(settled.fetches["country"].page).rows, "restricted")

ParsedProhibitedOfCompany ==
  extractActivities(bodyOf(settled.fetches["activities"].page).prohibited)

\* C27: every rule set getTransferRules returns has a non-empty
\* restrictedCountries list and every rule set getCompanyRestrictions returns
\* has a non-empty restrictedCountries or prohibitedActivities list (so has
\* every cache entry); when the pass over the fetched document yields no
\* restricted country (transfer) or neither list (company), the result is the
\* complete fallback rule set, and otherwise it carries the parsed lists.
C27_ExtractionFailsClosed ==
  /\ Settled => FailsClosed(settled.op, settled.rules)
  /\ TransferCacheKey \in DOMAIN transferRulesCache
       => FailsClosed("checkTransfer", transferRulesCache[TransferCacheKey].data)
  /\ CompanyCacheKey \in DOMAIN companyRestrictionsCache
       => FailsClosed("validateCompany", companyRestrictionsCache[CompanyCacheKey].data)
  /\ (Settled /\ settled.op = "checkTransfer" /\ settled.source = "fetch")
       => IF ParsedRestrictedOfTransfer = <<>>
            THEN settled.rules = getFallbackTransferRules
            ELSE settled.rules.restrictedCountries = ParsedRestrictedOfTransfer
  /\ (Settled /\ settled.op = "validateCompany" /\ settled.source = "fetch")
       => IF ParsedRestrictedOfCompany = <<>> /\ ParsedProhibitedOfCompany = <<>>
            THEN settled.rules = getFallbackCompanyRestrictions
            ELSE /\ settled.rules.restrictedCountries = ParsedRestrictedOfCompany
                 /\ settled.rules.prohibitedActivities = ParsedProhibitedOfCompany

\* a transfer page with an enhanced-monitoring section and no restricted
\* country: the complete fallback, not the parsed section
C27_Witness ==
  /\ Settled
  /\ settled.op = "checkTransfer"
  /\ settled.source = "fetch"
  /\ settled.fetches["transfer"].state = "resolved"
  /\ bodyOf(settled.fetches["transfer"].page).present
  /\ ParsedRestrictedOfTransfer = <<>>
  /\ extractListItems(bodyOf(settled.fetches["transfer"].page).enhanced) # <<>>
  /\ settled.rules = getFallbackTransferRules
  /\ settled.rules.enhancedMonitoring
       # extractListItems(bodyOf(settled.fetches["transfer"].page).enhanced)

\* C28 (state part): a call that read a still-valid entry gets that entry
\* and attempts no fetch; a call that read an expired entry and whose fetch
\* failed gets the hardcoded fallback, and the cache still has an entry.
C28_ValidEntryOrFallback ==
  /\ (Settled /\ ReadFresh(settled))
       => /\ settled.source = "cache"
          /\ settled.rules = settled.cached.data
          /\ \A d \in Docs : settled.fetches[d].attempts = 0
  /\ (Settled /\ ReadStale(settled) /\ SomeFetchFailed(settled))
       => /\ settled.source = "fallback"
          /\ settled.rules = FallbackFor(settled.op)
          /\ KeyOf(settled.op) \in DOMAIN CacheOf(settled.op)

\* C28: a still-valid cache entry is what the caller gets, the fetch not being
\* attempted; when the entry has expired and the fetch fails the caller gets
\* the hardcoded fallback rule set, not the stale one, and the step in which
\* the call settles leaves the entry in the cache unchanged.
C28_StaleEntryNotServed ==
  /\ []C28_ValidEntryOrFallback
  /\ [][ (settled'.pc = "done" /\ ReadStale(settled') /\ SomeFetchFailed(settled'))
         => /\ transferRulesCache' = transferRulesCache
            /\ companyRestrictionsCache' = companyRestrictionsCache ]_vars

\* an entry read 3600000 ms after it was stored, a fetch that failed: the
\* fallback, which the entry is not, and the entry is where it was
C28_Witness ==
  /\ Settled
  /\ ReadStale(settled)
  /\ SomeFetchFailed(settled)
  /\ settled.rules = FallbackFor(settled.op)
  /\ settled.cached.data # FallbackFor(settled.op)
  /\ CacheOf(settled.op)[KeyOf(settled.op)]
       = [data |-> settled.cached.data, timestamp |-> settled.cached.timestamp]

\* ------------------------------------------------------------------------
\* Termination (under SpecLive)
\* ------------------------------------------------------------------------

\* call id waits for a fetch
Pending(id) == calls[id].pc = "fetching"

\* C29: every call of checkTransfer and validateCompany that waits for its
\* fetches eventually returns, provided every issued fetch eventually
\* completes; a waiting call stops waiting only in a step in which one of its
\* fetches completes, and it then returns a result: the passing of time alone
\* never ends the wait.
C29_CallsEventuallyReturn ==
  /\ \A id \in CallIds : Pending(id) ~> ~Pending(id)
  /\ [][ \A id \in CallIds :
           (Pending(id) /\ ~Pending(id)')
           => /\ \E doc \in DocsOf(calls[id].op) :
                   /\ calls[id].fetches[doc].state = "inflight"
                   /\ settled'.fetches[doc].state \in {"resolved", "rejected"}
              /\ settled'.pc = "done"
              /\ settled'.op = calls[id].op
              /\ settled'.params = calls[id].params
              /\ settled'.readAt = calls[id].readAt
              /\ settled'.result # NoResult
              /\ settled'.result.isPossible \in BOOLEAN ]_vars

\* a call of validateCompany that waited for both documents, across a step
\* of the clock, and returned on what they brought
C29_Witness ==
  /\ CompanySettled
  /\ settled.pc = "done"
  /\ settled.readAt < now
  /\ settled.source = "fetch"
  /\ \A d \in {"country", "activities"} : settled.fetches[d].state = "resolved"
  /\ settled.result.isPossible \in BOOLEAN

\* ------------------------------------------------------------------------
\* Properties of the validator form (under SpecSubmit)
\* ------------------------------------------------------------------------

\* the form shows a valid IBAN
ReportedValidIban ==
  /\ validated.done
  /\ validated.result.isValid
  /\ validated.result.type = "IBAN"

\* the identifier, white space removed and in upper case
CleanedIdentifier == toUpperCase(removeWhitespace(validated.identifier))

\* its country code is in the table and its length is the table's
CountryAndLengthOk ==
  /\ Len(CleanedIdentifier) >= 2
  /\ (CleanedIdentifier[1] \o CleanedIdentifier[2]) \in DOMAIN IBAN_COUNTRY_CODES
  /\ Len(CleanedIdentifier)
       = IBAN_COUNTRY_CODES[CleanedIdentifier[1] \o CleanedIdentifier[2]].length

\* C30: an identifier is reported as a valid IBAN only if both checks pass:
\* the form shows isValid = true with type IBAN only when the identifier
\* passes the mod-97 check (isValidIBAN) and its country code is known and its
\* length is the table length for that code.
C30_ValidIbanPassedBothChecks ==
  ReportedValidIban
  => /\ isValidIBAN(validated.identifier)
     /\ CountryAndLengthOk

====
